---- MODULE Spec2Model ----
(***************************************************************************)
(* The Sokoban core of GameToggle: src/logic.ts (parseLevel, checkWin,     *)
(* movePlayer) and the session component src/games/SokobanGame.tsx         *)
(* (level load, move, undo, history).                                      *)
(*                                                                         *)
(* A JavaScript string is a sequence of characters; a cell of a grid is a  *)
(* string of length one, so the cell '#' is <<"#">> and the row string     *)
(* "#@" is <<"#", "@">>.  Positions keep the source's 0-based x (column)   *)
(* and y (row); TLA+ sequences are 1-based, hence the +1 in At.            *)
(***************************************************************************)
EXTENDS Integers, Sequences, FiniteSets, TLC

VARIABLES
  mode,              \* 'PLAY' | 'EDIT'
  currentLevelIndex, \* index into allLevels
  gameState,         \* GameState | null
  showWinModal,
  customLevels,      \* string[][]
  history,           \* historyRef.current
  historyLength,
  editorGrid,
  activeTool,
  editorError,
  storage,           \* localStorage['sokoban_custom_levels']
  effectPending,     \* a render was committed whose effects have not run yet
  mounted,           \* the mount effect has run
  heap,              \* the row arrays by address, where grids are held by
                     \* reference (SpecHeap); empty where they are values
  listener,          \* the render whose handleKeyDown is the keydown listener
  call,              \* the last call of a function of logic.ts: its arguments
  ret,               \* and what it returned
  snake,             \* SnakeGame: Point[], the head first
  food,
  score,
  status,            \* 'IDLE' | 'PLAYING' | 'GAME_OVER'
  dirRef,            \* dirRef.current
  nextDirRef,        \* nextDirRef.current
  ticks              \* SnakeGame: the callbacks of the interval run so far

snakeVars == <<snake, food, score, status, dirRef, nextDirRef, ticks>>

vars == <<mode, currentLevelIndex, gameState, showWinModal, customLevels,
          history, historyLength, editorGrid, activeTool, editorError,
          storage, effectPending, mounted, heap, listener, call, ret,
          snakeVars>>

sessionVars == <<mode, currentLevelIndex, gameState, showWinModal, customLevels,
                 history, historyLength, editorGrid, activeTool, editorError,
                 storage, effectPending, mounted, heap,
                 listener, snakeVars>>

----------------------------------------------------------------------------
(* src/types.ts *)

Floor          == <<" ">>
Wall           == <<"#">>
Box            == <<"$">>
Target         == <<".">>
BoxOnTarget    == <<"*">>
Player         == <<"@">>
PlayerOnTarget == <<"+">>

CellType == {Floor, Wall, Box, Target, BoxOnTarget, Player, PlayerOnTarget}

Direction == {"UP", "DOWN", "LEFT", "RIGHT"}

Null == [null |-> TRUE]

Position(x, y) == [x |-> x, y |-> y]

\* grid[y][x] of the source
At(grid, x, y) == grid[y + 1][x + 1]

\* grid[y][x] = c, on a grid that is the caller's to write
SetAt(grid, x, y, c) == [grid EXCEPT ![y + 1][x + 1] = c]

\* grid.length and grid[0].length
Rows(grid) == Len(grid)
Cols(grid) == Len(grid[1])

----------------------------------------------------------------------------
(* src/logic.ts *)

cloneGrid(grid) ==
  [y \in 1..Len(grid) |-> [x \in 1..Len(grid[y]) |-> grid[y][x]]]

\* the inner loop of checkWin over one row, from column x on: TRUE when the
\* loop ends without a return, FALSE when it returns false
RECURSIVE checkWinRow(_, _)
checkWinRow(row, x) ==
  IF x >= Len(row) THEN TRUE
  ELSE IF row[x + 1] = Box THEN FALSE
  ELSE checkWinRow(row, x + 1)

\* the outer loop of checkWin, from row y on
RECURSIVE checkWinFrom(_, _)
checkWinFrom(grid, y) ==
  IF y >= Len(grid) THEN TRUE
  ELSE IF ~checkWinRow(grid[y + 1], 0) THEN FALSE
  ELSE checkWinFrom(grid, y + 1)

\* checkWin, were it to count a box on a target as loose too
checkWinAnyBox(grid) ==
  \A y \in 1..Len(grid) : \A x \in 1..Len(grid[y]) :
    grid[y][x] # Box /\ grid[y][x] # BoxOnTarget

checkWin(grid) == checkWinFrom(grid, 0)

\* rowStr.split('')
split(rowStr) == [x \in 1..Len(rowStr) |-> <<rowStr[x]>>]

Max(S) == CHOOSE n \in S : \A m \in S : m <= n

\* The loops of parseLevel assign playerPos at every Player or PlayerOnTarget
\* character, rows in order and each row left to right, so the position
\* returned is that of the last such character: in the last row that holds
\* one, the last column that does.  Without any it stays { x: 0, y: 0 }.
IsPlayerChar(char) == <<char>> = Player \/ <<char>> = PlayerOnTarget

playerColumns(rowStr) ==
  {x \in 0..Len(rowStr) - 1 : IsPlayerChar(rowStr[x + 1])}

playerRows(levelDesign) ==
  {y \in 0..Len(levelDesign) - 1 : playerColumns(levelDesign[y + 1]) # {}}

\* parseLevel, were playerPos to start as null instead of { x: 0, y: 0 }
parseLevelNoDefault(levelDesign) ==
  [grid      |-> [y \in 1..Len(levelDesign) |-> split(levelDesign[y])],
   playerPos |->
     IF playerRows(levelDesign) = {} THEN Null
     ELSE LET y == Max(playerRows(levelDesign))
          IN Position(Max(playerColumns(levelDesign[y + 1])), y)]

\* parseLevel, were the position to be recorded as { x: y, y: x }
parseLevelSwapped(levelDesign) ==
  [grid      |-> [y \in 1..Len(levelDesign) |-> split(levelDesign[y])],
   playerPos |->
     IF playerRows(levelDesign) = {} THEN Position(0, 0)
     ELSE LET y == Max(playerRows(levelDesign))
          IN Position(y, Max(playerColumns(levelDesign[y + 1])))]

parseLevel(levelDesign) ==
  [grid      |-> [y \in 1..Len(levelDesign) |-> split(levelDesign[y])],
   playerPos |->
     IF playerRows(levelDesign) = {} THEN Position(0, 0)
     ELSE LET y == Max(playerRows(levelDesign))
          IN Position(Max(playerColumns(levelDesign[y + 1])), y)]

\* getOffset, were UP and DOWN to be exchanged
getOffsetFlipped(dir) ==
  CASE dir = "UP"    -> [dx |-> 0,  dy |-> 1]
    [] dir = "DOWN"  -> [dx |-> 0,  dy |-> -1]
    [] dir = "LEFT"  -> [dx |-> -1, dy |-> 0]
    [] dir = "RIGHT" -> [dx |-> 1,  dy |-> 0]

getOffset(dir) ==
  CASE dir = "UP"    -> [dx |-> 0,  dy |-> -1]
    [] dir = "DOWN"  -> [dx |-> 0,  dy |-> 1]
    [] dir = "LEFT"  -> [dx |-> -1, dy |-> 0]
    [] dir = "RIGHT" -> [dx |-> 1,  dy |-> 0]

\* the bounds checks of lines 55 and 76
OutOfBounds(grid, x, y) ==
  y < 0 \/ y >= Rows(grid) \/ x < 0 \/ x >= Cols(grid)

\* movePlayerCommit, were the returned position to stay the old one
movePlayerCommitStalePos(newGrid, targetCell, playerPos, newX, newY, pushed) ==
  LET oldCell == At(newGrid, playerPos.x, playerPos.y)
      cleared == SetAt(newGrid, playerPos.x, playerPos.y,
                       IF oldCell = PlayerOnTarget THEN Target ELSE Floor)
      isTargetUnderneath ==
        \/ targetCell = Target
        \/ targetCell = BoxOnTarget
        \/ targetCell = PlayerOnTarget
  IN [grid      |-> SetAt(cleared, newX, newY,
                          IF isTargetUnderneath THEN PlayerOnTarget ELSE Player),
      playerPos |-> playerPos,
      moved     |-> TRUE,
      pushed    |-> pushed]

\* movePlayerCommit, were isTargetUnderneath to forget BoxOnTarget
movePlayerCommitNoStar(newGrid, targetCell, playerPos, newX, newY, pushed) ==
  LET oldCell == At(newGrid, playerPos.x, playerPos.y)
      cleared == SetAt(newGrid, playerPos.x, playerPos.y,
                       IF oldCell = PlayerOnTarget THEN Target ELSE Floor)
      isTargetUnderneath ==
        \/ targetCell = Target
        \/ targetCell = PlayerOnTarget
  IN [grid      |-> SetAt(cleared, newX, newY,
                          IF isTargetUnderneath THEN PlayerOnTarget ELSE Player),
      playerPos |-> Position(newX, newY),
      moved     |-> TRUE,
      pushed    |-> pushed]

\* lines 92-112: the grid after the box write (if any), the player moved
movePlayerCommit(newGrid, targetCell, playerPos, newX, newY, pushed) ==
  LET oldCell == At(newGrid, playerPos.x, playerPos.y)
      cleared == SetAt(newGrid, playerPos.x, playerPos.y,
                       IF oldCell = PlayerOnTarget THEN Target ELSE Floor)
      isTargetUnderneath ==
        \/ targetCell = Target
        \/ targetCell = BoxOnTarget
        \/ targetCell = PlayerOnTarget
  IN [grid      |-> SetAt(cleared, newX, newY,
                          IF isTargetUnderneath THEN PlayerOnTarget ELSE Player),
      playerPos |-> Position(newX, newY),
      moved     |-> TRUE,
      pushed    |-> pushed]

\* movePlayerPush, were the box to be written two cells ahead of the player's
\* new cell instead of one
movePlayerPushFar(newGrid, targetCell, playerPos, newX, newY, dx, dy) ==
  LET boxNextX == newX + dx + dx
      boxNextY == newY + dy + dy
  IN IF OutOfBounds(newGrid, boxNextX, boxNextY) THEN Null
     ELSE LET boxDestCell == At(newGrid, boxNextX, boxNextY)
          IN IF boxDestCell = Floor \/ boxDestCell = Target
             THEN movePlayerCommit(
                    SetAt(newGrid, boxNextX, boxNextY,
                          IF boxDestCell = Target THEN BoxOnTarget ELSE Box),
                    targetCell, playerPos, newX, newY, TRUE)
             ELSE Null

\* movePlayerPush, were only a Wall to stop a box
movePlayerPushOverBoxes(newGrid, targetCell, playerPos, newX, newY, dx, dy) ==
  LET boxNextX == newX + dx
      boxNextY == newY + dy
  IN IF OutOfBounds(newGrid, boxNextX, boxNextY) THEN Null
     ELSE LET boxDestCell == At(newGrid, boxNextX, boxNextY)
          IN IF boxDestCell # Wall
             THEN movePlayerCommit(
                    SetAt(newGrid, boxNextX, boxNextY,
                          IF boxDestCell = Target THEN BoxOnTarget ELSE Box),
                    targetCell, playerPos, newX, newY, TRUE)
             ELSE Null

\* movePlayerPush, were the pushed box always written as a loose Box
movePlayerPushLoose(newGrid, targetCell, playerPos, newX, newY, dx, dy) ==
  LET boxNextX == newX + dx
      boxNextY == newY + dy
  IN IF OutOfBounds(newGrid, boxNextX, boxNextY) THEN Null
     ELSE LET boxDestCell == At(newGrid, boxNextX, boxNextY)
          IN IF boxDestCell = Floor \/ boxDestCell = Target
             THEN movePlayerCommit(
                    SetAt(newGrid, boxNextX, boxNextY, Box),
                    targetCell, playerPos, newX, newY, TRUE)
             ELSE Null

\* lines 70-90: the target cell holds a box
movePlayerPush(newGrid, targetCell, playerPos, newX, newY, dx, dy) ==
  LET boxNextX == newX + dx
      boxNextY == newY + dy
  IN IF OutOfBounds(newGrid, boxNextX, boxNextY) THEN Null
     ELSE LET boxDestCell == At(newGrid, boxNextX, boxNextY)
          IN IF boxDestCell = Floor \/ boxDestCell = Target
             THEN movePlayerCommit(
                    SetAt(newGrid, boxNextX, boxNextY,
                          IF boxDestCell = Target THEN BoxOnTarget ELSE Box),
                    targetCell, playerPos, newX, newY, TRUE)
             ELSE Null

movePlayer(currentGrid, playerPos, dir) ==
  LET off  == getOffset(dir)
      newX == playerPos.x + off.dx
      newY == playerPos.y + off.dy
  IN IF OutOfBounds(currentGrid, newX, newY) THEN Null
     ELSE LET targetCell == At(currentGrid, newX, newY)
              newGrid    == cloneGrid(currentGrid)
          IN IF targetCell = Floor \/ targetCell = Target
             THEN movePlayerCommit(newGrid, targetCell, playerPos,
                                   newX, newY, FALSE)
             ELSE IF targetCell = Box \/ targetCell = BoxOnTarget
             THEN movePlayerPush(newGrid, targetCell, playerPos,
                                 newX, newY, off.dx, off.dy)
             ELSE Null

----------------------------------------------------------------------------
(* src/games/SokobanGame.tsx: constants and the state after construction *)

MAX_HISTORY == 100
EDITOR_SIZE == 10

\* createEmptyGrid, were each row to be one cell short
createEmptyGridShort(size) ==
  [y \in 1..size |-> [x \in 1..size - 1 |-> Floor]]

\* lines 15-17
createEmptyGrid(size) == [y \in 1..size |-> [x \in 1..size |-> Floor]]

NoCall == [fn |-> "none"]

\* the useState and useRef initial values, lines 21-34, but for editorGrid
StateInit ==
  /\ mode = "PLAY"
  /\ currentLevelIndex = 0
  /\ gameState = Null
  /\ showWinModal = FALSE
  /\ customLevels = <<>>
  /\ history = <<>>
  /\ historyLength = 0
  /\ activeTool = Wall
  /\ editorError = Null
  /\ effectPending = TRUE
  /\ mounted = FALSE
  /\ listener = Null
  /\ snake = <<[x |-> 7, y |-> 7]>>
  /\ food = [x |-> 10, y |-> 10]
  /\ score = 0
  /\ status = "IDLE"
  /\ dirRef = "RIGHT"
  /\ nextDirRef = "RIGHT"
  /\ ticks = 0

SessionInit ==
  /\ StateInit
  /\ editorGrid = createEmptyGrid(EDITOR_SIZE)
  /\ heap = <<>>

----------------------------------------------------------------------------
(* The built-in levels (src/levels.ts is not among the sources): a         *)
(* corridor with room to walk in, and the level of the worked scenario.    *)

CorridorLevel == << <<"@", " ", "$", ".">> >>

ScenarioLevel ==
  << <<"#", "#", "#", "#", "#">>,
     <<"#", "@", "$", ".", "#">>,
     <<"#", "#", "#", "#", "#">> >>

LEVELS == <<CorridorLevel, ScenarioLevel>>

----------------------------------------------------------------------------
(* src/games/SokobanGame.tsx: the play session.  Each handler is one step  *)
(* on the committed state.  A step that commits a render leaves the        *)
(* component's effects pending (effectPending); they run as a step of      *)
(* their own, RunEffects.  When React runs the effects relative to the    *)
(* next input is not decided by these sources: inputs and RunEffects       *)
(* interleave in every order.  call and ret record the handler that ran    *)
(* last and what movePlayer returned to it.                                *)

allLevels == LEVELS \o customLevels

\* localStorage holds null or the JSON text of a value
JSONstringify(value) == [json |-> value]
JSONparse(text) == text.json

Skipped == [skipped |-> TRUE]

GameState(grid, playerPos, moves, levelCompleted) ==
  [grid |-> grid, playerPos |-> playerPos, moves |-> moves,
   levelCompleted |-> levelCompleted]

\* loadLevel, were the history left as it is (lines 70-71 missing)
loadLevelKeepHistory(index) ==
  LET outOfRange == index < 0 \/ index >= Len(allLevels)
      idx        == IF outOfRange THEN 0 ELSE index
      parsed     == parseLevel(allLevels[idx + 1])
  IN /\ currentLevelIndex' = (IF outOfRange THEN 0 ELSE currentLevelIndex)
     /\ gameState' = GameState(parsed.grid, parsed.playerPos, 0, FALSE)
     /\ UNCHANGED <<history, historyLength>>
     /\ showWinModal' = FALSE

\* lines 53-73; the caller says what becomes of customLevels
loadLevel(index) ==
  LET outOfRange == index < 0 \/ index >= Len(allLevels)
      idx        == IF outOfRange THEN 0 ELSE index
      parsed     == parseLevel(allLevels[idx + 1])
  IN /\ currentLevelIndex' = (IF outOfRange THEN 0 ELSE currentLevelIndex)
     /\ gameState' = GameState(parsed.grid, parsed.playerPos, 0, FALSE)
     /\ history' = <<>>
     /\ historyLength' = 0
     /\ showWinModal' = FALSE

\* pushHistory, were the newest snapshot dropped at capacity (pop for shift)
pushHistoryPop(hist, gs) ==
  LET newHistory == Append(hist, gs)
  IN IF Len(newHistory) > MAX_HISTORY
     THEN SubSeq(newHistory, 1, Len(newHistory) - 1) ELSE newHistory

\* lines 89-93: the history after an accepted move from state gs
pushHistory(hist, gs) ==
  LET newHistory == Append(hist, gs)
  IN IF Len(newHistory) > MAX_HISTORY THEN Tail(newHistory) ELSE newHistory


\* handleMove, were levelCompleted not tested at line 84
handleMoveNoCompletedTest(dir) ==
  /\ call' = [fn |-> "handleMove", dir |-> dir]
  /\ IF mode # "PLAY" \/ gameState = Null \/ showWinModal
     THEN /\ ret' = Skipped
          /\ UNCHANGED sessionVars
     ELSE LET result == movePlayer(gameState.grid, gameState.playerPos, dir)
          IN /\ ret' = result
             /\ IF result # Null
                THEN LET newHistory == pushHistory(history, gameState)
                         isWin      == checkWin(result.grid)
                     IN /\ history' = newHistory
                        /\ historyLength' = Len(newHistory)
                        /\ showWinModal' = (IF isWin THEN TRUE ELSE showWinModal)
                        /\ gameState' = GameState(result.grid, result.playerPos,
                                                  gameState.moves + 1, isWin)
                        /\ effectPending' = TRUE
                        /\ UNCHANGED <<mode, currentLevelIndex, customLevels,
                                       editorGrid, activeTool, editorError,
                                       storage, mounted, heap, listener, snakeVars>>
                ELSE UNCHANGED sessionVars

\* handleMove, were the win test made on the grid before the move
handleMoveStaleWin(dir) ==
  /\ call' = [fn |-> "handleMove", dir |-> dir]
  /\ IF mode # "PLAY" \/ gameState = Null \/ gameState.levelCompleted
        \/ showWinModal
     THEN /\ ret' = Skipped
          /\ UNCHANGED sessionVars
     ELSE LET result == movePlayer(gameState.grid, gameState.playerPos, dir)
          IN /\ ret' = result
             /\ IF result # Null
                THEN LET newHistory == pushHistory(history, gameState)
                         isWin      == checkWin(gameState.grid)
                     IN /\ history' = newHistory
                        /\ historyLength' = Len(newHistory)
                        /\ showWinModal' = (IF isWin THEN TRUE ELSE showWinModal)
                        /\ gameState' = GameState(result.grid, result.playerPos,
                                                  gameState.moves + 1, isWin)
                        /\ effectPending' = TRUE
                        /\ UNCHANGED <<mode, currentLevelIndex, customLevels,
                                       editorGrid, activeTool, editorError,
                                       storage, mounted, heap, listener, snakeVars>>
                ELSE UNCHANGED sessionVars

\* handleMove, were the snapshot pushed before the result is looked at
handleMovePushFirst(dir) ==
  /\ call' = [fn |-> "handleMove", dir |-> dir]
  /\ IF mode # "PLAY" \/ gameState = Null \/ gameState.levelCompleted
        \/ showWinModal
     THEN /\ ret' = Skipped
          /\ UNCHANGED sessionVars
     ELSE LET result     == movePlayer(gameState.grid, gameState.playerPos, dir)
              newHistory == pushHistory(history, gameState)
          IN /\ ret' = result
             /\ history' = newHistory
             /\ historyLength' = Len(newHistory)
             /\ effectPending' = TRUE
             /\ UNCHANGED <<mode, currentLevelIndex, customLevels,
                            editorGrid, activeTool, editorError,
                            storage, mounted, heap, listener, snakeVars>>
             /\ IF result # Null
                THEN LET isWin == checkWin(result.grid)
                     IN /\ showWinModal' = (IF isWin THEN TRUE ELSE showWinModal)
                        /\ gameState' = GameState(result.grid, result.playerPos,
                                                  gameState.moves + 1, isWin)
                ELSE UNCHANGED <<gameState, showWinModal>>

\* lines 83-111
handleMove(dir) ==
  /\ call' = [fn |-> "handleMove", dir |-> dir]
  /\ IF mode # "PLAY" \/ gameState = Null \/ gameState.levelCompleted
        \/ showWinModal
     THEN /\ ret' = Skipped
          /\ UNCHANGED sessionVars
     ELSE LET result == movePlayer(gameState.grid, gameState.playerPos, dir)
          IN /\ ret' = result
             /\ IF result # Null
                THEN LET newHistory == pushHistory(history, gameState)
                         isWin      == checkWin(result.grid)
                     IN /\ history' = newHistory
                        /\ historyLength' = Len(newHistory)
                        /\ showWinModal' = (IF isWin THEN TRUE ELSE showWinModal)
                        /\ gameState' = GameState(result.grid, result.playerPos,
                                                  gameState.moves + 1, isWin)
                        /\ effectPending' = TRUE
                        /\ UNCHANGED <<mode, currentLevelIndex, customLevels,
                                       editorGrid, activeTool, editorError,
                                       storage, mounted, heap, listener, snakeVars>>
                ELSE UNCHANGED sessionVars

\* handleUndo, were the history not tested for being empty: the last element
\* of an empty array is undefined, and slice(0, -1) of it is empty
handleUndoNoEmptyTest ==
  /\ call' = [fn |-> "handleUndo"]
  /\ IF gameState = Null \/ gameState.levelCompleted
     THEN /\ ret' = Skipped
          /\ UNCHANGED sessionVars
     ELSE LET previousState == IF Len(history) = 0 THEN Null
                               ELSE history[Len(history)]
          IN /\ ret' = Null
             /\ history' = SubSeq(history, 1, Len(history) - 1)
             /\ historyLength' = Len(history')
             /\ gameState' = previousState
             /\ showWinModal' = FALSE
             /\ effectPending' = TRUE
             /\ UNCHANGED <<mode, currentLevelIndex, customLevels, editorGrid,
                            activeTool, editorError, storage, mounted, heap,
                            listener, snakeVars>>

\* handleUndo, were setHistoryLength (line 117) left out
handleUndoStaleLength ==
  /\ call' = [fn |-> "handleUndo"]
  /\ ret' = (IF Len(history) = 0 \/ gameState = Null
                \/ gameState.levelCompleted
             THEN Skipped ELSE Null)
  /\ IF Len(history) = 0 \/ gameState = Null \/ gameState.levelCompleted
     THEN UNCHANGED sessionVars
     ELSE LET previousState == history[Len(history)]
          IN /\ history' = SubSeq(history, 1, Len(history) - 1)
             /\ historyLength' = historyLength
             /\ gameState' = previousState
             /\ showWinModal' = FALSE
             /\ effectPending' = TRUE
             /\ UNCHANGED <<mode, currentLevelIndex, customLevels, editorGrid,
                            activeTool, editorError, storage, mounted, heap,
                            listener, snakeVars>>

\* handleUndo, were levelCompleted not tested at line 114
handleUndoNoCompletedTest ==
  /\ call' = [fn |-> "handleUndo"]
  /\ ret' = (IF Len(history) = 0 \/ gameState = Null THEN Skipped ELSE Null)
  /\ IF Len(history) = 0 \/ gameState = Null
     THEN UNCHANGED sessionVars
     ELSE LET previousState == history[Len(history)]
          IN /\ history' = SubSeq(history, 1, Len(history) - 1)
             /\ historyLength' = Len(history) - 1
             /\ gameState' = previousState
             /\ showWinModal' = FALSE
             /\ effectPending' = TRUE
             /\ UNCHANGED <<mode, currentLevelIndex, customLevels, editorGrid,
                            activeTool, editorError, storage, mounted, heap,
                            listener, snakeVars>>

\* lines 113-120; ret tells whether the guard of line 114 returned
handleUndo ==
  /\ call' = [fn |-> "handleUndo"]
  /\ ret' = (IF Len(history) = 0 \/ gameState = Null
                \/ gameState.levelCompleted
             THEN Skipped ELSE Null)
  /\ IF Len(history) = 0 \/ gameState = Null \/ gameState.levelCompleted
     THEN UNCHANGED sessionVars
     ELSE LET previousState == history[Len(history)]
          IN /\ history' = SubSeq(history, 1, Len(history) - 1)
             /\ historyLength' = Len(history) - 1
             /\ gameState' = previousState
             /\ showWinModal' = FALSE
             /\ effectPending' = TRUE
             /\ UNCHANGED <<mode, currentLevelIndex, customLevels, editorGrid,
                            activeTool, editorError, storage, mounted, heap,
                            listener, snakeVars>>

\* loadLevel(currentLevelIndex) from the R key (line 220) or Reset (line 293)
resetLevel ==
  /\ call' = [fn |-> "loadLevel", index |-> currentLevelIndex]
  /\ ret' = Null
  /\ loadLevel(currentLevelIndex)
  /\ effectPending' = TRUE
  /\ UNCHANGED <<mode, customLevels, editorGrid, activeTool, editorError,
                 storage, mounted, heap, listener, snakeVars>>

Keys == {"ArrowUp", "ArrowDown", "ArrowLeft", "ArrowRight", "z", "r"}

KeyDir(key) ==
  CASE key = "ArrowUp"    -> "UP"
    [] key = "ArrowDown"  -> "DOWN"
    [] key = "ArrowLeft"  -> "LEFT"
    [] key = "ArrowRight" -> "RIGHT"

\* lines 210-223, for the keys that reach a handler (w, a, s, d, Z and R are
\* the same cases as the arrows, z and r)
KeyDown(key) ==
  /\ mode = "PLAY"
  /\ ~showWinModal
  /\ CASE key = "z" -> handleUndo
       [] key = "r" -> resetLevel
       [] OTHER     -> handleMove(KeyDir(key))

\* the Undo button, lines 290-292; the sidebar is rendered in play mode once
\* there is a gameState (lines 276, 337)
PlaySidebarShown == mode = "PLAY" /\ gameState # Null

ClickUndo ==
  /\ PlaySidebarShown
  /\ historyLength # 0
  /\ handleUndo

\* the Reset button, lines 293-295
ClickReset ==
  /\ PlaySidebarShown
  /\ resetLevel

\* a level button, lines 307-319: setCurrentLevelIndex(idx)
SelectLevel(idx) ==
  /\ PlaySidebarShown
  /\ idx \in 0..Len(allLevels) - 1
  /\ idx # currentLevelIndex
  /\ currentLevelIndex' = idx
  /\ effectPending' = TRUE
  /\ call' = [fn |-> "setCurrentLevelIndex", index |-> idx]
  /\ ret' = Null
  /\ UNCHANGED <<mode, gameState, showWinModal, customLevels, history,
                 historyLength, editorGrid, activeTool, editorError, storage,
                 mounted, heap, listener, snakeVars>>

\* the win modal, lines 352-359
WinModalShown == showWinModal /\ mode = "PLAY"

WinNext ==
  /\ WinModalShown
  /\ currentLevelIndex < Len(allLevels) - 1
  /\ currentLevelIndex' = currentLevelIndex + 1
  /\ effectPending' = TRUE
  /\ call' = [fn |-> "onNext"]
  /\ ret' = Null
  /\ UNCHANGED <<mode, gameState, showWinModal, customLevels, history,
                 historyLength, editorGrid, activeTool, editorError, storage,
                 mounted, heap, listener, snakeVars>>

WinStay ==
  /\ WinModalShown
  /\ showWinModal' = FALSE
  /\ effectPending' = TRUE
  /\ call' = [fn |-> "onStay"]
  /\ ret' = Null
  /\ UNCHANGED <<mode, currentLevelIndex, gameState, customLevels, history,
                 historyLength, editorGrid, activeTool, editorError, storage,
                 mounted, heap, listener, snakeVars>>

\* Open Level Editor, line 298, and Cancel / Exit, line 269
OpenEditor ==
  /\ PlaySidebarShown
  /\ mode' = "EDIT"
  /\ effectPending' = TRUE
  /\ call' = [fn |-> "setMode", mode |-> "EDIT"]
  /\ ret' = Null
  /\ UNCHANGED <<currentLevelIndex, gameState, showWinModal, customLevels,
                 history, historyLength, editorGrid, activeTool, editorError,
                 storage, mounted, heap, listener, snakeVars>>

CancelEditor ==
  /\ mode = "EDIT"
  /\ mode' = "PLAY"
  /\ effectPending' = TRUE
  /\ call' = [fn |-> "setMode", mode |-> "PLAY"]
  /\ ret' = Null
  /\ UNCHANGED <<currentLevelIndex, gameState, showWinModal, customLevels,
                 history, historyLength, editorGrid, activeTool, editorError,
                 storage, mounted, heap, listener, snakeVars>>

\* what the handlers of a render see of the state: handleMove, handleUndo and
\* loadLevel are closures over the values of their render (lines 73, 111, 120)
Render ==
  [mode |-> mode, showWinModal |-> showWinModal, gameState |-> gameState,
   currentLevelIndex |-> currentLevelIndex, customLevels |-> customLevels]

\* the effects, were the load effect to load only when there is no session
MountAndLoadEffectsResume ==
  /\ effectPending
  /\ mounted' = TRUE
  /\ customLevels' = (IF ~mounted /\ storage # Null THEN JSONparse(storage)
                      ELSE customLevels)
  /\ IF mode = "PLAY" /\ gameState = Null
     THEN /\ loadLevel(currentLevelIndex)
          /\ effectPending' = TRUE
     ELSE /\ effectPending' = (customLevels' # customLevels)
          /\ UNCHANGED <<currentLevelIndex, gameState, showWinModal, history,
                         historyLength>>
  /\ call' = [fn |-> "useEffect",
              run |-> IF call.fn = "useEffect" THEN 1 - call.run ELSE 0]
  /\ ret' = Null
  /\ UNCHANGED <<mode, editorGrid, activeTool, editorError, storage, heap>>

\* The effects of the last render.  The mount effect (lines 37-46) runs once
\* and takes the stored custom levels.  The load effect (lines 76-81) depends
\* on loadLevel, which is a new function on every render because allLevels
\* (line 51) is a new array on every render: it runs after every render, and
\* in play mode it calls loadLevel with the allLevels of that render.  What
\* it sets is a new render, whose effects are pending again.  call.run tells
\* one run of the effects from the next when nothing comes between them.
MountAndLoadEffects ==
  /\ effectPending
  /\ mounted' = TRUE
  /\ customLevels' = (IF ~mounted /\ storage # Null THEN JSONparse(storage)
                      ELSE customLevels)
  /\ IF mode = "PLAY"
     THEN /\ loadLevel(currentLevelIndex)
          /\ effectPending' = TRUE
     ELSE /\ effectPending' = (customLevels' # customLevels)
          /\ UNCHANGED <<currentLevelIndex, gameState, showWinModal, history,
                         historyLength>>
  /\ call' = [fn |-> "useEffect",
              run |-> IF call.fn = "useEffect" THEN 1 - call.run ELSE 0]
  /\ ret' = Null
  /\ UNCHANGED <<mode, editorGrid, activeTool, editorError, storage, heap>>

\* the effects, for the handlers of the current render (the listener is not
\* looked at)
RunEffects == MountAndLoadEffects /\ UNCHANGED <<listener, snakeVars>>

\* the effects with the keydown effect (lines 209-226), which makes the
\* handleKeyDown of that render the listener
RunAllEffects ==
  MountAndLoadEffects /\ listener' = Render /\ UNCHANGED snakeVars

\* The keydown listener as a closure.  The listener is the handleKeyDown of
\* the render whose effects ran last (lines 209-226), and the handlers it
\* calls read mode, showWinModal, gameState, currentLevelIndex and allLevels
\* of that render; historyRef is read and written where it is, and the
\* setters act on the state of now.

\* lines 83-111, handleMove of the render c
handleMoveOf(c, dir) ==
  /\ call' = [fn |-> "handleMove", dir |-> dir]
  /\ IF c.mode # "PLAY" \/ c.gameState = Null \/ c.gameState.levelCompleted
        \/ c.showWinModal
     THEN /\ ret' = Skipped
          /\ UNCHANGED sessionVars
     ELSE LET result == movePlayer(c.gameState.grid, c.gameState.playerPos,
                                   dir)
          IN /\ ret' = result
             /\ IF result # Null
                THEN LET newHistory == pushHistory(history, c.gameState)
                         isWin      == checkWin(result.grid)
                     IN /\ history' = newHistory
                        /\ historyLength' = Len(newHistory)
                        /\ showWinModal' =
                             (IF isWin THEN TRUE ELSE showWinModal)
                        /\ gameState' = GameState(result.grid, result.playerPos,
                                                  c.gameState.moves + 1, isWin)
                        /\ effectPending' = TRUE
                        /\ UNCHANGED <<mode, currentLevelIndex, customLevels,
                                       editorGrid, activeTool, editorError,
                                       storage, mounted, heap, listener, snakeVars>>
                ELSE UNCHANGED sessionVars

\* lines 113-120, handleUndo of the render c
handleUndoOf(c) ==
  /\ call' = [fn |-> "handleUndo"]
  /\ IF Len(history) = 0 \/ c.gameState = Null \/ c.gameState.levelCompleted
     THEN /\ ret' = Skipped
          /\ UNCHANGED sessionVars
     ELSE /\ ret' = Null
          /\ history' = SubSeq(history, 1, Len(history) - 1)
          /\ historyLength' = Len(history) - 1
          /\ gameState' = history[Len(history)]
          /\ showWinModal' = FALSE
          /\ effectPending' = TRUE
          /\ UNCHANGED <<mode, currentLevelIndex, customLevels, editorGrid,
                         activeTool, editorError, storage, mounted, heap,
                         listener, snakeVars>>

\* lines 53-73 called at line 220, loadLevel and currentLevelIndex of the
\* render c
loadLevelOf(c) ==
  LET levels     == LEVELS \o c.customLevels
      index      == c.currentLevelIndex
      outOfRange == index < 0 \/ index >= Len(levels)
      idx        == IF outOfRange THEN 0 ELSE index
      parsed     == parseLevel(levels[idx + 1])
  IN /\ call' = [fn |-> "loadLevel", index |-> index]
     /\ ret' = Null
     /\ currentLevelIndex' = (IF outOfRange THEN 0 ELSE currentLevelIndex)
     /\ gameState' = GameState(parsed.grid, parsed.playerPos, 0, FALSE)
     /\ history' = <<>>
     /\ historyLength' = 0
     /\ showWinModal' = FALSE
     /\ effectPending' = TRUE
     /\ UNCHANGED <<mode, customLevels, editorGrid, activeTool, editorError,
                    storage, mounted, heap, listener, snakeVars>>

\* lines 210-223: a key reaches the listener there is
handleKeyDown(key) ==
  /\ listener # Null
  /\ listener.mode = "PLAY"
  /\ ~listener.showWinModal
  /\ CASE key = "z" -> handleUndoOf(listener)
       [] key = "r" -> loadLevelOf(listener)
       [] OTHER     -> handleMoveOf(listener, KeyDir(key))

----------------------------------------------------------------------------
(* The same code with grids held by reference.  A grid is an array of row  *)
(* arrays; here it is the sequence of the addresses of its rows, and heap  *)
(* maps an address to the row's cells.  Only row arrays are ever written   *)
(* (grid[y][x] = c); GameState objects, positions and the outer arrays are *)
(* built and never written.  An allocation appends to heap.                *)

\* the cells of the grid g in heap h
Deref(h, g) == [y \in 1..Len(g) |-> h[g[y]]]

\* the addresses of the rows of g
RowsOf(g) == {g[y] : y \in 1..Len(g)}

\* grid[y][x] = c
WriteRef(h, g, x, y, c) == [h EXCEPT ![g[y + 1]][x + 1] = c]

\* a new grid of the given rows
AllocGrid(h, rows) ==
  [heap |-> h \o rows, grid |-> [y \in 1..Len(rows) |-> Len(h) + y]]

\* cloneGrid, were it [...grid]: a new outer array of the same rows
cloneGridRefShallow(h, grid) == [heap |-> h, grid |-> grid]

\* src/logic.ts line 4: grid.map(row => [...row]), every row copied
cloneGridRef(h, grid) == AllocGrid(h, Deref(h, grid))

\* src/logic.ts lines 19-31: every row is a new array (split)
parseLevelRef(h, levelDesign) ==
  LET new == AllocGrid(h, parseLevel(levelDesign).grid)
  IN [heap |-> new.heap, grid |-> new.grid,
      playerPos |-> parseLevel(levelDesign).playerPos]

\* src/logic.ts lines 92-112
movePlayerCommitRef(h, newGrid, targetCell, playerPos, newX, newY, pushed) ==
  LET oldCell == At(Deref(h, newGrid), playerPos.x, playerPos.y)
      h1 == WriteRef(h, newGrid, playerPos.x, playerPos.y,
                     IF oldCell = PlayerOnTarget THEN Target ELSE Floor)
      isTargetUnderneath ==
        \/ targetCell = Target
        \/ targetCell = BoxOnTarget
        \/ targetCell = PlayerOnTarget
  IN [heap   |-> WriteRef(h1, newGrid, newX, newY,
                          IF isTargetUnderneath THEN PlayerOnTarget
                          ELSE Player),
      result |-> [grid      |-> newGrid,
                  playerPos |-> Position(newX, newY),
                  moved     |-> TRUE,
                  pushed    |-> pushed]]

\* src/logic.ts lines 70-90
movePlayerPushRef(h, newGrid, targetCell, playerPos, newX, newY, dx, dy) ==
  LET boxNextX == newX + dx
      boxNextY == newY + dy
  IN IF OutOfBounds(Deref(h, newGrid), boxNextX, boxNextY)
     THEN [heap |-> h, result |-> Null]
     ELSE LET boxDestCell == At(Deref(h, newGrid), boxNextX, boxNextY)
          IN IF boxDestCell = Floor \/ boxDestCell = Target
             THEN movePlayerCommitRef(
                    WriteRef(h, newGrid, boxNextX, boxNextY,
                             IF boxDestCell = Target THEN BoxOnTarget
                             ELSE Box),
                    newGrid, targetCell, playerPos, newX, newY, TRUE)
             ELSE [heap |-> h, result |-> Null]

\* src/logic.ts lines 44-115: the heap after the call and what it returned
movePlayerRef(h, currentGrid, playerPos, dir) ==
  LET off  == getOffset(dir)
      newX == playerPos.x + off.dx
      newY == playerPos.y + off.dy
  IN IF OutOfBounds(Deref(h, currentGrid), newX, newY)
     THEN [heap |-> h, result |-> Null]
     ELSE LET targetCell == At(Deref(h, currentGrid), newX, newY)
              clone      == cloneGridRef(h, currentGrid)
          IN IF targetCell = Floor \/ targetCell = Target
             THEN movePlayerCommitRef(clone.heap, clone.grid, targetCell,
                                      playerPos, newX, newY, FALSE)
             ELSE IF targetCell = Box \/ targetCell = BoxOnTarget
             THEN movePlayerPushRef(clone.heap, clone.grid, targetCell,
                                    playerPos, newX, newY, off.dx, off.dy)
             ELSE [heap |-> clone.heap, result |-> Null]

\* SokobanGame.tsx lines 53-73
loadLevelRef(index) ==
  LET outOfRange == index < 0 \/ index >= Len(allLevels)
      idx        == IF outOfRange THEN 0 ELSE index
      parsed     == parseLevelRef(heap, allLevels[idx + 1])
  IN /\ heap' = parsed.heap
     /\ currentLevelIndex' = (IF outOfRange THEN 0 ELSE currentLevelIndex)
     /\ gameState' = GameState(parsed.grid, parsed.playerPos, 0, FALSE)
     /\ history' = <<>>
     /\ historyLength' = 0
     /\ showWinModal' = FALSE

\* SokobanGame.tsx lines 83-111
handleMoveRef(dir) ==
  /\ call' = [fn |-> "handleMove", dir |-> dir]
  /\ IF mode # "PLAY" \/ gameState = Null \/ gameState.levelCompleted
        \/ showWinModal
     THEN /\ ret' = Skipped
          /\ UNCHANGED sessionVars
     ELSE LET moved  == movePlayerRef(heap, gameState.grid,
                                      gameState.playerPos, dir)
              result == moved.result
          IN /\ ret' = result
             /\ heap' = moved.heap
             /\ IF result # Null
                THEN LET newHistory == pushHistory(history, gameState)
                         isWin == checkWin(Deref(moved.heap, result.grid))
                     IN /\ history' = newHistory
                        /\ historyLength' = Len(newHistory)
                        /\ showWinModal' =
                             (IF isWin THEN TRUE ELSE showWinModal)
                        /\ gameState' = GameState(result.grid, result.playerPos,
                                                  gameState.moves + 1, isWin)
                        /\ effectPending' = TRUE
                        /\ UNCHANGED <<mode, currentLevelIndex, customLevels,
                                       editorGrid, activeTool, editorError,
                                       storage, mounted, listener, snakeVars>>
                ELSE UNCHANGED <<mode, currentLevelIndex, gameState,
                                 showWinModal, customLevels, history,
                                 historyLength, editorGrid, activeTool,
                                 editorError, storage, effectPending, mounted,
                                 listener, snakeVars>>

resetLevelRef ==
  /\ call' = [fn |-> "loadLevel", index |-> currentLevelIndex]
  /\ ret' = Null
  /\ loadLevelRef(currentLevelIndex)
  /\ effectPending' = TRUE
  /\ UNCHANGED <<mode, customLevels, editorGrid, activeTool, editorError,
                 storage, mounted, listener, snakeVars>>

\* lines 210-223; handleUndo moves references only and is the one above
KeyDownRef(key) ==
  /\ mode = "PLAY"
  /\ ~showWinModal
  /\ CASE key = "z" -> handleUndo
       [] key = "r" -> resetLevelRef
       [] OTHER     -> handleMoveRef(KeyDir(key))

\* lines 37-46 and 76-81, as RunEffects
RunEffectsRef ==
  /\ effectPending
  /\ mounted' = TRUE
  /\ customLevels' = (IF ~mounted /\ storage # Null THEN JSONparse(storage)
                      ELSE customLevels)
  /\ IF mode = "PLAY"
     THEN /\ loadLevelRef(currentLevelIndex)
          /\ effectPending' = TRUE
     ELSE /\ effectPending' = (customLevels' # customLevels)
          /\ UNCHANGED <<currentLevelIndex, gameState, showWinModal, history,
                         historyLength, heap>>
  /\ call' = [fn |-> "useEffect"]
  /\ ret' = Null
  /\ UNCHANGED <<mode, editorGrid, activeTool, editorError, storage,
                 listener, snakeVars>>

\* the tools of the editor sidebar, lines 240-246, and a click on one, line 249
Tools == {Wall, Player, Box, Target, Floor}

SelectTool(tool) ==
  /\ mode = "EDIT"
  /\ tool # activeTool
  /\ activeTool' = tool
  /\ effectPending' = TRUE
  /\ call' = [fn |-> "setActiveTool", tool |-> tool]
  /\ ret' = Null
  /\ UNCHANGED <<mode, currentLevelIndex, gameState, showWinModal,
                 customLevels, history, historyLength, editorGrid, editorError,
                 storage, mounted, heap, listener, snakeVars>>

\* placedCell, were the Target tool to take a target away from a cell that
\* has one
placedCellToggle(tool, currentCell) ==
  LET isTargetUnder == \/ currentCell = Target
                       \/ currentCell = BoxOnTarget
                       \/ currentCell = PlayerOnTarget
  IN IF tool = Box /\ isTargetUnder THEN BoxOnTarget
     ELSE IF tool = Player /\ isTargetUnder THEN PlayerOnTarget
     ELSE IF tool = Target
     THEN IF currentCell = Box THEN BoxOnTarget
          ELSE IF currentCell = Player THEN PlayerOnTarget
          ELSE IF currentCell = Floor THEN Target
          ELSE IF isTargetUnder THEN Floor
          ELSE Target
     ELSE tool

\* placedCell, were isTargetUnder to forget PlayerOnTarget
placedCellNoPlus(tool, currentCell) ==
  LET isTargetUnder == \/ currentCell = Target
                       \/ currentCell = BoxOnTarget
  IN IF tool = Box /\ isTargetUnder THEN BoxOnTarget
     ELSE IF tool = Player /\ isTargetUnder THEN PlayerOnTarget
     ELSE IF tool = Target
     THEN IF currentCell = Box THEN BoxOnTarget
          ELSE IF currentCell = Player THEN PlayerOnTarget
          ELSE IF currentCell = Floor THEN Target
          ELSE Target
     ELSE tool

\* lines 133-149: the cell the tool places on a cell holding currentCell
placedCell(tool, currentCell) ==
  LET isTargetUnder == \/ currentCell = Target
                       \/ currentCell = BoxOnTarget
                       \/ currentCell = PlayerOnTarget
  IN IF tool = Box /\ isTargetUnder THEN BoxOnTarget
     ELSE IF tool = Player /\ isTargetUnder THEN PlayerOnTarget
     ELSE IF tool = Target
     THEN IF currentCell = Box THEN BoxOnTarget
          ELSE IF currentCell = Player THEN PlayerOnTarget
          ELSE IF currentCell = Floor THEN Target
          ELSE Target
     ELSE tool

\* withoutPlayer, were a player standing on a target to leave Floor behind
withoutPlayerToFloor(cell) ==
  IF cell = Player \/ cell = PlayerOnTarget THEN Floor ELSE cell

\* lines 155-156 on one cell
withoutPlayer(cell) ==
  IF cell = Player THEN Floor
  ELSE IF cell = PlayerOnTarget THEN Target
  ELSE cell

\* lines 153-158: the two loops write every row of newGrid
clearPlayersRef(h, newGrid) ==
  [a \in 1..Len(h) |->
     IF a \in RowsOf(newGrid)
     THEN [x \in 1..Len(h[a]) |-> withoutPlayer(h[a][x])]
     ELSE h[a]]

\* lines 124-164: a click on cell (x, y) of the board in edit mode
handleEditorCellClickRef(x, y) ==
  /\ mode = "EDIT"
  /\ LET clone       == cloneGridRef(heap, editorGrid)
         newGrid     == clone.grid
         currentCell == At(Deref(clone.heap, newGrid), x, y)
         newCell     == placedCell(activeTool, currentCell)
         h1 == IF activeTool = Player \/ newCell = PlayerOnTarget
               THEN clearPlayersRef(clone.heap, newGrid)
               ELSE clone.heap
     IN /\ heap' = WriteRef(h1, newGrid, x, y, newCell)
        /\ editorGrid' = newGrid
  /\ editorError' = Null
  /\ effectPending' = TRUE
  /\ call' = [fn |-> "handleEditorCellClick", x |-> x, y |-> y]
  /\ ret' = Null
  /\ UNCHANGED <<mode, currentLevelIndex, gameState, showWinModal,
                 customLevels, history, historyLength, activeTool, storage,
                 mounted, listener, snakeVars>>

----------------------------------------------------------------------------
(* SokobanGame.tsx: the level editor, with grids as values *)

\* lines 153-158 on a grid
clearPlayers(grid) ==
  [y \in 1..Len(grid) |->
     [x \in 1..Len(grid[y]) |-> withoutPlayer(grid[y][x])]]

\* handleEditorCellClick, were the single player rule applied whatever the
\* tool
handleEditorCellClickAlwaysClear(x, y) ==
  /\ mode = "EDIT"
  /\ LET newGrid     == cloneGrid(editorGrid)
         currentCell == At(newGrid, x, y)
         newCell     == placedCell(activeTool, currentCell)
         cleared     == clearPlayers(newGrid)
     IN editorGrid' = SetAt(cleared, x, y, newCell)
  /\ editorError' = Null
  /\ effectPending' = TRUE
  /\ call' = [fn |-> "handleEditorCellClick", x |-> x, y |-> y]
  /\ ret' = Null
  /\ UNCHANGED <<mode, currentLevelIndex, gameState, showWinModal,
                 customLevels, history, historyLength, activeTool, storage,
                 mounted, heap, listener, snakeVars>>

\* lines 124-164: a click on cell (x, y) of the board in edit mode
handleEditorCellClick(x, y) ==
  /\ mode = "EDIT"
  /\ LET newGrid     == cloneGrid(editorGrid)
         currentCell == At(newGrid, x, y)
         newCell     == placedCell(activeTool, currentCell)
         cleared     == IF activeTool = Player \/ newCell = PlayerOnTarget
                        THEN clearPlayers(newGrid) ELSE newGrid
     IN editorGrid' = SetAt(cleared, x, y, newCell)
  /\ editorError' = Null
  /\ effectPending' = TRUE
  /\ call' = [fn |-> "handleEditorCellClick", x |-> x, y |-> y]
  /\ ret' = Null
  /\ UNCHANGED <<mode, currentLevelIndex, gameState, showWinModal,
                 customLevels, history, historyLength, activeTool, storage,
                 mounted, heap, listener, snakeVars>>

\* lines 203-206
clearEditor ==
  /\ mode = "EDIT"
  /\ editorGrid' = createEmptyGrid(EDITOR_SIZE)
  /\ editorError' = Null
  /\ effectPending' = TRUE
  /\ call' = [fn |-> "clearEditor"]
  /\ ret' = Null
  /\ UNCHANGED <<mode, currentLevelIndex, gameState, showWinModal,
                 customLevels, history, historyLength, activeTool, storage,
                 mounted, heap, listener, snakeVars>>

\* the number of cells of the grid that are in the set kinds (the counters
\* of lines 168-176)
CountRow(row, kinds) == Cardinality({x \in 1..Len(row) : row[x] \in kinds})

RECURSIVE CountFrom(_, _, _)
CountFrom(grid, y, kinds) ==
  IF y > Len(grid) THEN 0
  ELSE CountRow(grid[y], kinds) + CountFrom(grid, y + 1, kinds)

CountCells(grid, kinds) == CountFrom(grid, 1, kinds)

\* the messages of lines 179, 183 and 187; the template of line 187 with the
\* two numbers it is filled with
OnePlayerError == [text |-> "Level must have exactly one player (@)."]
NoBoxError     == [text |-> "Level must have at least one box ($)."]
MismatchError(boxCount, targetCount) ==
  [text |-> "Mismatch: ${boxCount} boxes and ${targetCount} targets.",
   boxCount |-> boxCount, targetCount |-> targetCount]

\* validate, were there no test of the player count (lines 178-181 missing)
validateNoPlayerTest(grid) ==
  LET boxCount    == CountCells(grid, {Box, BoxOnTarget})
      targetCount == CountCells(grid, {Target, BoxOnTarget, PlayerOnTarget})
  IN IF boxCount = 0 THEN NoBoxError
     ELSE IF boxCount # targetCount THEN MismatchError(boxCount, targetCount)
     ELSE Null

\* validate, were the boxes tested before the player
validateBoxFirst(grid) ==
  LET playerCount == CountCells(grid, {Player, PlayerOnTarget})
      boxCount    == CountCells(grid, {Box, BoxOnTarget})
      targetCount == CountCells(grid, {Target, BoxOnTarget, PlayerOnTarget})
  IN IF boxCount = 0 THEN NoBoxError
     ELSE IF playerCount # 1 THEN OnePlayerError
     ELSE IF boxCount # targetCount THEN MismatchError(boxCount, targetCount)
     ELSE Null

\* lines 167-189: the error saveLevel sets and returns with, or Null
validate(grid) ==
  LET playerCount == CountCells(grid, {Player, PlayerOnTarget})
      boxCount    == CountCells(grid, {Box, BoxOnTarget})
      targetCount == CountCells(grid, {Target, BoxOnTarget, PlayerOnTarget})
  IN IF playerCount # 1 THEN OnePlayerError
     ELSE IF boxCount = 0 THEN NoBoxError
     ELSE IF boxCount # targetCount THEN MismatchError(boxCount, targetCount)
     ELSE Null

\* row.join(''): the cells of a row, one after the other
RECURSIVE join(_)
join(row) == IF row = <<>> THEN <<>> ELSE Head(row) \o join(Tail(row))

\* gridToStrings of logic.ts (line 192; its source is not among the
\* sources): every row joined into a string
gridToStrings(grid) == [y \in 1..Len(grid) |-> join(grid[y])]

\* saveLevel, were the level stored before the grid is validated
saveLevelStoreFirst ==
  LET error            == validate(editorGrid)
      newCustomLevels  == Append(customLevels, gridToStrings(editorGrid))
  IN /\ mode = "EDIT"
     /\ call' = [fn |-> "saveLevel"]
     /\ ret' = error
     /\ customLevels' = newCustomLevels
     /\ storage' = JSONstringify(newCustomLevels)
     /\ effectPending' = TRUE
     /\ IF error # Null
        THEN /\ editorError' = error
             /\ UNCHANGED <<mode, currentLevelIndex>>
        ELSE /\ editorError' = Null
             /\ mode' = "PLAY"
             /\ currentLevelIndex' = Len(LEVELS) + Len(newCustomLevels) - 1
     /\ UNCHANGED <<gameState, showWinModal, history, historyLength,
                    editorGrid, activeTool, mounted, heap, listener, snakeVars>>

\* saveLevel, were the new level selected by its index among the custom
\* levels (LEVELS.length left out of line 200)
saveLevelCustomIndex ==
  LET error            == validate(editorGrid)
      newCustomLevels  == Append(customLevels, gridToStrings(editorGrid))
  IN /\ mode = "EDIT"
     /\ call' = [fn |-> "saveLevel"]
     /\ ret' = error
     /\ IF error # Null
        THEN /\ editorError' = error
             /\ effectPending' = (effectPending \/ error # editorError)
             /\ UNCHANGED <<mode, currentLevelIndex, customLevels, storage>>
        ELSE /\ customLevels' = newCustomLevels
             /\ storage' = JSONstringify(newCustomLevels)
             /\ editorError' = Null
             /\ mode' = "PLAY"
             /\ currentLevelIndex' = Len(newCustomLevels) - 1
             /\ effectPending' = TRUE
     /\ UNCHANGED <<gameState, showWinModal, history, historyLength,
                    editorGrid, activeTool, mounted, heap, listener, snakeVars>>

\* lines 166-201: Save & Play (line 258).  A setter given the value the
\* state has already commits no render.
saveLevel ==
  LET error            == validate(editorGrid)
      newCustomLevels  == Append(customLevels, gridToStrings(editorGrid))
  IN /\ mode = "EDIT"
     /\ call' = [fn |-> "saveLevel"]
     /\ ret' = error
     /\ IF error # Null
        THEN /\ editorError' = error
             /\ effectPending' = (effectPending \/ error # editorError)
             /\ UNCHANGED <<mode, currentLevelIndex, customLevels, storage>>
        ELSE /\ customLevels' = newCustomLevels
             /\ storage' = JSONstringify(newCustomLevels)
             /\ editorError' = Null
             /\ mode' = "PLAY"
             /\ currentLevelIndex' = Len(LEVELS) + Len(newCustomLevels) - 1
             /\ effectPending' = TRUE
     /\ UNCHANGED <<gameState, showWinModal, history, historyLength,
                    editorGrid, activeTool, mounted, heap, listener, snakeVars>>

----------------------------------------------------------------------------
(* The session: the state after construction with nothing or one custom    *)
(* level in storage, and every input of play mode.  Moves are accepted     *)
(* while the move counter is below MaxMoves.                               *)

MaxMoves == 4

\* a level the editor can have saved earlier: EDITOR_SIZE rows of EDITOR_SIZE
\* cells, one player, two boxes, two targets, a wall below the player
StoredRow(y) ==
  CASE y = 1 -> <<" ", ".", "$", "@", ".", "$", " ", " ", " ", " ">>
    [] y = 2 -> <<" ", " ", " ", "#", " ", " ", " ", " ", " ", " ">>
    [] OTHER -> [x \in 1..EDITOR_SIZE |-> " "]

StoredLevel == [y \in 1..EDITOR_SIZE |-> StoredRow(y)]

Init ==
  /\ SessionInit
  /\ storage \in {Null, JSONstringify(<<StoredLevel>>)}
  /\ call = NoCall
  /\ ret = Null

MovesBelow(n) == gameState # Null => gameState.moves < n

Next ==
  \/ RunEffects
  \/ \E key \in Keys : MovesBelow(MaxMoves) /\ KeyDown(key)
  \/ ClickUndo
  \/ ClickReset
  \/ \E idx \in 0..Len(allLevels) - 1 : SelectLevel(idx)
  \/ WinNext
  \/ WinStay
  \/ OpenEditor
  \/ CancelEditor

Spec == Init /\ [][Next]_vars

\* The same session with the scheduling React guarantees: the effects of a
\* committed render are run.
SpecFair == Init /\ [][Next]_vars /\ WF_vars(RunEffects)

\* The session with the keydown listener as the closure it is: keys reach
\* the handlers of the render whose effects ran last, the Undo and Reset
\* buttons those of the current render.

KeysNext ==
  \/ RunAllEffects
  \/ \E key \in Keys :
       /\ listener # Null /\ listener.gameState # Null
            => listener.gameState.moves < MaxMoves
       /\ handleKeyDown(key)
  \/ ClickUndo
  \/ ClickReset

SpecKeys == Init /\ [][KeysNext]_vars

\* The history at its capacity: the first level only, walked back and forth
\* by key, with undo and reset, until the move counter reaches MaxWalk.

MaxWalk == 102

WalkNext ==
  \/ RunEffects
  \/ \E key \in Keys : MovesBelow(MaxWalk) /\ KeyDown(key)

SpecWalk == Init /\ [][WalkNext]_vars

\* The session with grids by reference: the component as constructed, the
\* editor grid allocated, nothing in storage.  A step that allocates is taken
\* while the heap holds fewer than MaxHeap rows; clicks go to the first
\* MaxClick cells of the first editor row.

MaxHeap == 14
MaxClick == 2

HeapInit ==
  /\ StateInit
  /\ storage = Null
  /\ heap = createEmptyGrid(EDITOR_SIZE)
  /\ editorGrid = [y \in 1..EDITOR_SIZE |-> y]
  /\ call = NoCall
  /\ ret = Null

HeapRoom == Len(heap) < MaxHeap

HeapNext ==
  \/ HeapRoom /\ RunEffectsRef
  \/ \E key \in Keys : HeapRoom /\ KeyDownRef(key)
  \/ ClickUndo
  \/ \E idx \in 0..Len(allLevels) - 1 : SelectLevel(idx)
  \/ WinStay
  \/ OpenEditor
  \/ CancelEditor
  \/ \E tool \in Tools : SelectTool(tool)
  \/ \E x \in 0..MaxClick - 1 : HeapRoom /\ handleEditorCellClickRef(x, 0)

SpecHeap == HeapInit /\ [][HeapNext]_vars

----------------------------------------------------------------------------
(* The functions of logic.ts on their own.  The inputs are every           *)
(* rectangular grid of at most MaxCells cells that holds exactly one       *)
(* player-bearing cell, with playerPos at that cell (the Position          *)
(* invariant of the data model), and the level of the worked scenario,     *)
(* which goes through parseLevel first.  A call is recorded in call (the   *)
(* function and its arguments) and ret (what it returned).                 *)

MaxCells == 5

Shapes == {s \in (1..MaxCells) \X (1..MaxCells) : s[1] * s[2] <= MaxCells}

GridsOf(w, h) == [1..h -> [1..w -> CellType]]

Cells(grid) == (0..Cols(grid) - 1) \X (0..Rows(grid) - 1)

PlayerCells(grid) ==
  {p \in Cells(grid) : At(grid, p[1], p[2]) \in {Player, PlayerOnTarget}}

MoveInit ==
  /\ SessionInit
  /\ storage = Null
  /\ ret = Null
  /\ \/ \E s \in Shapes : \E grid \in GridsOf(s[1], s[2]) :
          /\ Cardinality(PlayerCells(grid)) = 1
          /\ \E p \in PlayerCells(grid) :
               call = [fn |-> "none", grid |-> grid,
                       playerPos |-> Position(p[1], p[2])]
     \/ call = [fn |-> "none", level |-> ScenarioLevel]

\* parseLevel(level) on a level not parsed yet
CallParseLevel ==
  /\ call.fn = "none"
  /\ "level" \in DOMAIN call
  /\ call' = [fn |-> "parseLevel", level |-> call.level]
  /\ ret' = parseLevel(call.level)
  /\ UNCHANGED sessionVars

\* movePlayer(grid, playerPos, dir) on an input grid, or on what parseLevel
\* returned
CallMovePlayer(dir) ==
  /\ \/ call.fn = "none" /\ "grid" \in DOMAIN call
        /\ call' = [fn |-> "movePlayer", grid |-> call.grid,
                    playerPos |-> call.playerPos, dir |-> dir]
        /\ ret' = movePlayer(call.grid, call.playerPos, dir)
     \/ call.fn = "parseLevel"
        /\ call' = [fn |-> "movePlayer", grid |-> ret.grid,
                    playerPos |-> ret.playerPos, dir |-> dir]
        /\ ret' = movePlayer(ret.grid, ret.playerPos, dir)
  /\ UNCHANGED sessionVars

\* checkWin(grid) on an input grid, or on the grid movePlayer returned
CallCheckWin ==
  /\ \/ call.fn = "none" /\ "grid" \in DOMAIN call
        /\ call' = [fn |-> "checkWin", grid |-> call.grid]
        /\ ret' = checkWin(call.grid)
     \/ call.fn = "movePlayer" /\ ret # Null
        /\ call' = [fn |-> "checkWin", grid |-> ret.grid, after |-> call]
        /\ ret' = checkWin(ret.grid)
  /\ UNCHANGED sessionVars

MoveNext ==
  \/ CallParseLevel
  \/ \E dir \in Direction : CallMovePlayer(dir)
  \/ CallCheckWin

SpecMove == MoveInit /\ [][MoveNext]_vars

\* The editor: the session with nothing in storage, the editor opened and
\* left, tools chosen, the first MaxClick cells of the first editor row
\* clicked, the grid cleared and saved while fewer than MaxCustom levels are
\* held.

MaxCustom == 2

EditNext ==
  \/ RunEffects
  \/ OpenEditor
  \/ CancelEditor
  \/ \E tool \in Tools : SelectTool(tool)
  \/ \E x \in 0..MaxClick - 1 : handleEditorCellClick(x, 0)
  \/ clearEditor
  \/ Len(customLevels) < MaxCustom /\ saveLevel

EditInit == Init /\ storage = Null

SpecEdit == EditInit /\ [][EditNext]_vars

\* Play and edit mode together.  A key goes through handleKeyDown in either
\* mode (lines 210-223) and a click on the board through
\* handleEditorCellClick in either mode (line 125); both are those of the
\* current render.

\* the cells of the first editor row that are clicked
MaxModeClick == 1

\* KeyDownAnyMode, were the mode not tested at line 211
KeyDownNoModeTest(key) ==
  /\ ~showWinModal
  /\ CASE key = "z" -> handleUndo
       [] key = "r" -> resetLevel
       [] OTHER     -> handleMove(KeyDir(key))

\* lines 210-223: in play mode the key reaches its handler, in edit mode
\* the listener does nothing
KeyDownAnyMode(key) ==
  IF mode = "PLAY" THEN KeyDown(key)
  ELSE /\ call' = [fn |-> "handleKeyDown", key |-> key]
       /\ ret' = Skipped
       /\ UNCHANGED sessionVars

\* lines 124-125: outside edit mode the click handler returns at once
ClickBoard(x, y) ==
  IF mode = "EDIT" THEN handleEditorCellClick(x, y)
  ELSE /\ call' = [fn |-> "handleEditorCellClick", x |-> x, y |-> y]
       /\ ret' = Skipped
       /\ UNCHANGED sessionVars

ModeNext ==
  \/ RunEffects
  \/ \E key \in Keys : MovesBelow(MaxMoves) /\ KeyDownAnyMode(key)
  \/ \E idx \in 0..Len(allLevels) - 1 : SelectLevel(idx)
  \/ OpenEditor
  \/ CancelEditor
  \/ \E tool \in Tools : SelectTool(tool)
  \/ \E x \in 0..MaxModeClick - 1 : ClickBoard(x, 0)
  \/ clearEditor

SpecMode == EditInit /\ [][ModeNext]_vars

\* Leaving the editor: a session played for up to MaxReturnMoves moves, the
\* editor opened, the first MaxReturnClick cells of its first row drawn,
\* and left by Cancel / Exit or by a save, while no custom level is held.

MaxReturnMoves == 1
MaxReturnClick == 2

ReturnNext ==
  \/ RunEffects
  \/ \E key \in Keys : MovesBelow(MaxReturnMoves) /\ KeyDown(key)
  \/ OpenEditor
  \/ CancelEditor
  \/ \E tool \in Tools : SelectTool(tool)
  \/ \E x \in 0..MaxReturnClick - 1 : handleEditorCellClick(x, 0)
  \/ customLevels = <<>> /\ saveLevel

SpecReturn == EditInit /\ [][ReturnNext]_vars

\* The editor board with grids by reference: the editor opened, tools
\* chosen, and the first MaxClick cells of the first editor row clicked
\* while the heap holds fewer than MaxDrawHeap rows, which leaves room for
\* three clicks.

MaxDrawHeap == 32

DrawRoom == Len(heap) < MaxDrawHeap

DrawNext ==
  \/ HeapRoom /\ RunEffectsRef
  \/ OpenEditor
  \/ \E tool \in Tools : SelectTool(tool)
  \/ \E x \in 0..MaxClick - 1 : DrawRoom /\ handleEditorCellClickRef(x, 0)

SpecDraw == HeapInit /\ [][DrawNext]_vars

\* The level index: levels selected, completed and followed by Next, a
\* level drawn on the first MaxIndexClick cells of the editor and saved
\* while no custom level is held, and loadLevel called with an index
\* outside the level list.

MaxIndexMoves == 2
MaxIndexClick == 2

\* onNext, were the index not tested at line 355
onNextNoTest ==
  /\ WinModalShown
  /\ currentLevelIndex' = currentLevelIndex + 1
  /\ effectPending' = TRUE
  /\ call' = [fn |-> "onNext"]
  /\ ret' = Null
  /\ UNCHANGED <<mode, gameState, showWinModal, customLevels, history,
                 historyLength, editorGrid, activeTool, editorError, storage,
                 mounted, heap, listener, snakeVars>>

\* line 355: onNext of the win modal, on the last level as on the others
onNext ==
  IF currentLevelIndex < Len(allLevels) - 1 THEN WinNext
  ELSE /\ WinModalShown
       /\ call' = [fn |-> "onNext"]
       /\ ret' = Skipped
       /\ UNCHANGED sessionVars

\* lines 53-73: loadLevel(index) for an index outside the level list
CallLoadLevel(index) ==
  /\ mounted
  /\ index < 0 \/ index >= Len(allLevels)
  /\ call' = [fn |-> "loadLevel", index |-> index]
  /\ ret' = Null
  /\ loadLevel(index)
  /\ effectPending' = TRUE
  /\ UNCHANGED <<mode, customLevels, editorGrid, activeTool, editorError,
                 storage, mounted, heap, listener, snakeVars>>

IndexNext ==
  \/ RunEffects
  \/ \E key \in Keys : MovesBelow(MaxIndexMoves) /\ KeyDown(key)
  \/ \E idx \in 0..Len(allLevels) - 1 : SelectLevel(idx)
  \/ onNext
  \/ WinStay
  \/ OpenEditor
  \/ \E tool \in Tools : SelectTool(tool)
  \/ \E x \in 0..MaxIndexClick - 1 : handleEditorCellClick(x, 0)
  \/ customLevels = <<>> /\ saveLevel
  \/ \E index \in {-1, Len(allLevels), Len(allLevels) + 1} :
       CallLoadLevel(index)

SpecIndex == EditInit /\ [][IndexNext]_vars

\* The editor board on its own: the editor opened, tools chosen, the first
\* MaxPaint cells of the first editor row clicked, the grid cleared.

MaxPaint == 3

PaintNext ==
  \/ RunEffects
  \/ OpenEditor
  \/ \E tool \in Tools : SelectTool(tool)
  \/ \E x \in 0..MaxPaint - 1 : handleEditorCellClick(x, 0)
  \/ clearEditor

SpecPaint == EditInit /\ [][PaintNext]_vars

\* The level text format on its own: every rectangular grid of at most
\* MaxRound cells, with any number of players, serialized by gridToStrings
\* and parsed back by parseLevel; and every level of at most MaxRound
\* characters in rows of equal length, parsed by parseLevel.

MaxRound == 4

\* the characters of a level row: the values of CellType
CellChars == {cell[1] : cell \in CellType}

RoundInit ==
  /\ SessionInit
  /\ storage = Null
  /\ ret = Null
  /\ \E w \in 1..MaxRound : \E h \in 1..MaxRound :
       /\ w * h <= MaxRound
       /\ \/ \E grid \in GridsOf(w, h) :
               call = [fn |-> "none", grid |-> grid]
          \/ \E level \in [1..h -> [1..w -> CellChars]] :
               call = [fn |-> "none", level |-> level]

\* gridToStrings(grid) on an input grid
CallGridToStrings ==
  /\ call.fn = "none"
  /\ "grid" \in DOMAIN call
  /\ call' = [fn |-> "gridToStrings", grid |-> call.grid]
  /\ ret' = gridToStrings(call.grid)
  /\ UNCHANGED sessionVars

\* parseLevel on the rows gridToStrings returned
CallParseSerialized ==
  /\ call.fn = "gridToStrings"
  /\ call' = [fn |-> "parseLevel", level |-> ret, grid |-> call.grid]
  /\ ret' = parseLevel(ret)
  /\ UNCHANGED sessionVars

RoundNext ==
  \/ CallParseLevel
  \/ CallGridToStrings
  \/ CallParseSerialized

SpecRound == RoundInit /\ [][RoundNext]_vars

\* The validation of saveLevel on its own: every grid of one row of up to
\* MaxSaveCells cells, validated once.

MaxSaveCells == 4

ValidateInit ==
  /\ SessionInit
  /\ storage = Null
  /\ ret = Null
  /\ \E w \in 1..MaxSaveCells : \E grid \in GridsOf(w, 1) :
       call = [fn |-> "none", grid |-> grid]

CallValidate ==
  /\ call.fn = "none"
  /\ call' = [fn |-> "validate", grid |-> call.grid]
  /\ ret' = validate(call.grid)
  /\ UNCHANGED sessionVars

SpecValidate == ValidateInit /\ [][CallValidate]_vars

----------------------------------------------------------------------------
(* Properties of movePlayer, checkWin and parseLevel, under SpecMove *)

\* the offsets as the specification gives them
SpecOffset(dir) ==
  CASE dir = "UP"    -> <<0, -1>>
    [] dir = "DOWN"  -> <<0, 1>>
    [] dir = "LEFT"  -> <<-1, 0>>
    [] dir = "RIGHT" -> <<1, 0>>

InGrid(grid, p) == p \in Cells(grid)

\* the cells a recorded call of movePlayer is about
PlayerCellOf(c) == <<c.playerPos.x, c.playerPos.y>>
TargetCellOf(c) == <<c.playerPos.x + SpecOffset(c.dir)[1],
                     c.playerPos.y + SpecOffset(c.dir)[2]>>
BoxDestCellOf(c) == <<c.playerPos.x + 2 * SpecOffset(c.dir)[1],
                      c.playerPos.y + 2 * SpecOffset(c.dir)[2]>>

CellAt(grid, p) == At(grid, p[1], p[2])

SameShape(g1, g2) ==
  /\ Len(g1) = Len(g2)
  /\ \A y \in 1..Len(g1) : Len(g1[y]) = Len(g2[y])

Moved == call.fn = "movePlayer" /\ ret # Null

\* C1: movePlayer returns null, or a grid of the same shape that differs from
\* the input grid at most in the player's old cell, the cell the player
\* enters and, when a box was pushed, the cell behind that one; no other cell
\* changes.
C1_FrameEffect ==
  call.fn = "movePlayer" =>
    \/ ret = Null
    \/ /\ SameShape(ret.grid, call.grid)
       /\ \A p \in Cells(call.grid) :
            CellAt(ret.grid, p) # CellAt(call.grid, p) =>
              \/ p = PlayerCellOf(call)
              \/ p = TargetCellOf(call)
              \/ ret.pushed /\ p = BoxDestCellOf(call)

\* a push succeeded on a grid that has a cell besides the three involved
C1_Witness ==
  /\ Moved /\ ret.pushed
  /\ \E p \in Cells(call.grid) :
       p \notin {PlayerCellOf(call), TargetCellOf(call), BoxDestCellOf(call)}

\* the case of C2: a box ahead, and behind it a Wall, a box or the edge
BlockedPush ==
  /\ call.fn = "movePlayer"
  /\ InGrid(call.grid, TargetCellOf(call))
  /\ CellAt(call.grid, TargetCellOf(call)) \in {Box, BoxOnTarget}
  /\ \/ ~InGrid(call.grid, BoxDestCellOf(call))
     \/ CellAt(call.grid, BoxDestCellOf(call)) \in {Wall, Box, BoxOnTarget}

\* C2: a push of a Box or BoxOnTarget whose cell behind is a Wall, a Box, a
\* BoxOnTarget or off the grid returns null: no grid with a moved box or
\* player is produced.
C2_BlockedPushRejected == BlockedPush => ret = Null

\* a box on a target is pushed against another box
C2_Witness ==
  /\ BlockedPush
  /\ InGrid(call.grid, BoxDestCellOf(call))
  /\ CellAt(call.grid, TargetCellOf(call)) = BoxOnTarget
  /\ CellAt(call.grid, BoxDestCellOf(call)) = Box

\* the rejection condition of C3
SpecRejects(c) ==
  \/ ~InGrid(c.grid, TargetCellOf(c))
  \/ CellAt(c.grid, TargetCellOf(c)) = Wall
  \/ /\ CellAt(c.grid, TargetCellOf(c)) \in {Box, BoxOnTarget}
     /\ \/ ~InGrid(c.grid, BoxDestCellOf(c))
        \/ CellAt(c.grid, BoxDestCellOf(c)) \notin {Floor, Target}

TargetBearing(grid) ==
  {p \in Cells(grid) :
     CellAt(grid, p) \in {Target, BoxOnTarget, PlayerOnTarget}}

\* C4: an accepted move keeps the set of target-bearing positions; the
\* vacated cell becomes Target if it was PlayerOnTarget, else Floor; the
\* entered cell becomes PlayerOnTarget if it was Target or BoxOnTarget, else
\* Player; a pushed box becomes BoxOnTarget if its destination was Target,
\* else Box.
C4_TargetsPreserved ==
  Moved =>
    /\ TargetBearing(ret.grid) = TargetBearing(call.grid)
    /\ CellAt(ret.grid, PlayerCellOf(call)) =
         IF CellAt(call.grid, PlayerCellOf(call)) = PlayerOnTarget
         THEN Target ELSE Floor
    /\ CellAt(ret.grid, TargetCellOf(call)) =
         IF CellAt(call.grid, TargetCellOf(call)) \in {Target, BoxOnTarget}
         THEN PlayerOnTarget ELSE Player
    /\ ret.pushed =>
         CellAt(ret.grid, BoxDestCellOf(call)) =
           IF CellAt(call.grid, BoxDestCellOf(call)) = Target
           THEN BoxOnTarget ELSE Box

\* a player on a target pushes a box off a target onto another target
C4_Witness ==
  /\ Moved /\ ret.pushed
  /\ CellAt(call.grid, PlayerCellOf(call)) = PlayerOnTarget
  /\ CellAt(call.grid, TargetCellOf(call)) = BoxOnTarget
  /\ CellAt(call.grid, BoxDestCellOf(call)) = Target

NoBoxIn(grid) == \A p \in Cells(grid) : CellAt(grid, p) # Box

\* C7: checkWin(grid) is true iff no cell of the grid equals Box, for an
\* input grid as for the grid a move ended in.
C7_CheckWin == call.fn = "checkWin" => (ret <=> NoBoxIn(call.grid))

\* a move that pushed the last loose box onto a target is found to win
C7_Witness ==
  /\ call.fn = "checkWin" /\ "after" \in DOMAIN call
  /\ ~NoBoxIn(call.after.grid)
  /\ ret = TRUE

\* the grid of the scenario, cell by cell
ScenarioGrid ==
  << <<Wall, Wall,   Wall, Wall,   Wall>>,
     <<Wall, Player, Box,  Target, Wall>>,
     <<Wall, Wall,   Wall, Wall,   Wall>> >>

ScenarioMove ==
  [fn |-> "movePlayer", grid |-> ScenarioGrid,
   playerPos |-> Position(1, 1), dir |-> "RIGHT"]

\* C8: for the rows "#####", "#@$.#", "#####", parseLevel yields position
\* (1,1); movePlayer RIGHT succeeds with pushed, leaving BoxOnTarget at (3,1),
\* Player at (2,1) and Floor at (1,1); checkWin of the result is true.
C8_Scenario ==
  /\ call.fn = "parseLevel" =>
       ret.playerPos = Position(1, 1) /\ ret.grid = ScenarioGrid
  /\ call = ScenarioMove =>
       /\ ret # Null
       /\ ret.moved /\ ret.pushed
       /\ ret.playerPos = Position(2, 1)
       /\ At(ret.grid, 3, 1) = BoxOnTarget
       /\ At(ret.grid, 2, 1) = Player
       /\ At(ret.grid, 1, 1) = Floor
  /\ (call.fn = "checkWin" /\ "after" \in DOMAIN call
        /\ call.after = ScenarioMove) => ret = TRUE

\* the scenario was run to its end: parsed, moved RIGHT, checked
C8_Witness ==
  /\ call.fn = "checkWin" /\ "after" \in DOMAIN call
  /\ call.after = ScenarioMove

----------------------------------------------------------------------------
(* Properties of the play session *)

\* the step just taken was handleMove, and movePlayer accepted the move
MoveAccepted == call.fn = "handleMove" /\ ret # Null /\ ret # Skipped

\* the step just taken was handleMove, and movePlayer returned null
MoveRejected == call.fn = "handleMove" /\ ret = Null

\* C5: grids are snapshots.  No step writes a row of the live grid (the
\* grid movePlayer is given) or a row of a GameState held in the undo
\* history: a move, an undo, a reset, a level load and an editor click all
\* leave the cells of those rows as they were; and no history entry shares
\* a row with the live grid.
SnapshotRows ==
  (IF gameState = Null THEN {} ELSE RowsOf(gameState.grid))
    \cup UNION {RowsOf(history[i].grid) : i \in 1..Len(history)}

C5_Snapshots ==
  /\ [][\A a \in SnapshotRows : heap'[a] = heap[a]]_vars
  /\ [](\A i \in 1..Len(history) :
          RowsOf(history[i].grid) \cap RowsOf(gameState.grid) = {})

\* an editor click made while the history holds two snapshots of pushes
C5_Witness ==
  /\ call.fn = "handleEditorCellClick"
  /\ Len(history) >= 2
  /\ Deref(heap, history[2].grid) # Deref(heap, history[1].grid)
  /\ Deref(heap, gameState.grid) # Deref(heap, history[2].grid)

\* C6: in every state of the play session (after the level load and any
\* moves, undos, resets and level changes), playerPos indexes a cell of the
\* grid and that cell is Player or PlayerOnTarget.
C6_PlayerPosValid ==
  gameState # Null =>
    /\ InGrid(gameState.grid, <<gameState.playerPos.x, gameState.playerPos.y>>)
    /\ At(gameState.grid, gameState.playerPos.x, gameState.playerPos.y)
         \in {Player, PlayerOnTarget}

\* the player was moved onto a target and the move before that was pushed
C6_Witness ==
  /\ MoveAccepted
  /\ gameState.moves >= 2
  /\ At(gameState.grid, gameState.playerPos.x, gameState.playerPos.y)
       = PlayerOnTarget

\* C9: the history never holds more than MAX_HISTORY snapshots, and an
\* accepted move made with MAX_HISTORY snapshots stored drops the oldest one
\* and keeps the newer ones, in order, followed by the pre-move state.
C9_HistoryBounded ==
  /\ [](Len(history) <= MAX_HISTORY)
  /\ [][(MoveAccepted' /\ Len(history) = MAX_HISTORY) =>
          /\ Len(history') = MAX_HISTORY
          /\ SubSeq(history', 1, MAX_HISTORY - 1) = SubSeq(history, 2, MAX_HISTORY)
          /\ history'[MAX_HISTORY] = gameState]_vars

\* a move was accepted after the history was full: the snapshot of move 0 is
\* gone, the oldest one left is that of move 1
C9_Witness ==
  /\ MoveAccepted
  /\ Len(history) = MAX_HISTORY
  /\ gameState.moves = MAX_HISTORY + 1
  /\ history[1].moves = 1

C11_UndoInverse ==
  [][(MoveAccepted /\ call'.fn = "handleUndo") =>
       /\ gameState' = history[Len(history)]
       /\ history' = SubSeq(history, 1, Len(history) - 1)
       /\ ~showWinModal']_vars

\* C12: an undo with an empty history changes nothing: gameState, history,
\* showWinModal and every other part of the session stay, the editor error
\* included.
C12_EmptyUndoNoOp ==
  [][(call'.fn = "handleUndo" /\ Len(history) = 0) =>
       UNCHANGED sessionVars]_vars

\* the Z key with a level loaded, not completed, and nothing to undo
C12_Witness ==
  /\ call.fn = "handleUndo"
  /\ ret = Skipped
  /\ history = <<>>
  /\ gameState # Null
  /\ ~gameState.levelCompleted

\* the step just taken called loadLevel: the R key or Reset, or the load
\* effect in play mode
LevelLoaded ==
  \/ call.fn = "loadLevel"
  \/ call.fn = "useEffect" /\ mode = "PLAY"

\* C13: every call of loadLevel (by the load effect at mount and after a
\* level selection, by the R key and by Reset) leaves the history empty and
\* the session at the parsed current level with moves 0, levelCompleted
\* false and the win modal hidden.
C13_LoadClearsHistory ==
  [][LevelLoaded' =>
       /\ history' = <<>>
       /\ historyLength' = 0
       /\ gameState' =
            GameState(parseLevel(allLevels[currentLevelIndex' + 1]).grid,
                      parseLevel(allLevels[currentLevelIndex' + 1]).playerPos,
                      0, FALSE)
       /\ ~showWinModal']_vars

\* Reset on the second level
C13_Witness ==
  /\ call.fn = "loadLevel"
  /\ currentLevelIndex = 1
  /\ gameState # Null
  /\ gameState.grid = parseLevel(ScenarioLevel).grid
  /\ history = <<>>

\* C14: the effects that run after a move or an undo do not replace the
\* play session: gameState and history stay what the move or undo made them.
C14_NoReloadAfterMove ==
  [][(call.fn \in {"handleMove", "handleUndo"} /\ call'.fn = "useEffect") =>
       UNCHANGED <<gameState, history>>]_vars

\* C15: inputs are handled in order, each on the state the one before left:
\* an accepted move is computed from the current GameState, pushes it, and
\* never pushes a snapshot the history holds already; the result counts one
\* move more than the state it replaces.
C15_InputsInOrder ==
  [][(call'.fn = "handleMove" /\ ret' # Null /\ ret' # Skipped) =>
       /\ history'[Len(history')] = gameState
       /\ \A i \in 1..Len(history) : history[i] # gameState
       /\ gameState'.moves = gameState.moves + 1]_vars

\* C16: the updates and effect runs an input (or the mount) sets off come to
\* an end: again and again the session is in a state where no effect is due.
C16_Quiescence == []<>(~effectPending)

----------------------------------------------------------------------------
(* Properties of the level editor *)

\* the number of cells of the grid that are in the set kinds
NumCells(grid, kinds) ==
  Cardinality({p \in Cells(grid) : At(grid, p[1], p[2]) \in kinds})

NumPlayers(grid) == NumCells(grid, {Player, PlayerOnTarget})
NumBoxes(grid)   == NumCells(grid, {Box, BoxOnTarget})
NumTargets(grid) == NumCells(grid, {Target, BoxOnTarget, PlayerOnTarget})

\* C17: the validation of a save reports the first failure of: the number
\* of Player and PlayerOnTarget cells is not 1 (the player message); there
\* is no Box or BoxOnTarget cell (the box message); the number of boxes
\* differs from the number of Target, BoxOnTarget and PlayerOnTarget cells
\* (the mismatch message with both numbers); and accepts every other grid.
C17_ValidationOrder ==
  call.fn = "validate" =>
    ret = (IF NumPlayers(call.grid) # 1
             THEN [text |-> "Level must have exactly one player (@)."]
           ELSE IF NumBoxes(call.grid) = 0
             THEN [text |-> "Level must have at least one box ($)."]
           ELSE IF NumBoxes(call.grid) # NumTargets(call.grid)
             THEN [text |->
                     "Mismatch: ${boxCount} boxes and ${targetCount} targets.",
                   boxCount |-> NumBoxes(call.grid),
                   targetCount |-> NumTargets(call.grid)]
           ELSE Null)

\* a grid of one player, two boxes and one target under one of them was
\* rejected with "2 boxes and 1 targets"
C17_Witness ==
  /\ call.fn = "validate"
  /\ NumPlayers(call.grid) = 1
  /\ ret # Null
  /\ "boxCount" \in DOMAIN ret
  /\ ret.boxCount = 2
  /\ ret.targetCount = 1

\* C18: a save that fails validation sets the editor error and nothing
\* else: the custom levels, their stored copy, the mode (EDIT), the current
\* level index, the editor grid and the play session stay as they were.
C18_FailedSaveKeepsState ==
  [][(call'.fn = "saveLevel" /\ ret' # Null) =>
       /\ editorError' = ret'
       /\ mode' = "EDIT"
       /\ UNCHANGED <<customLevels, storage, mode, currentLevelIndex,
                      editorGrid, gameState, history, historyLength,
                      showWinModal>>]_vars

\* a save was refused for a mismatch after an earlier save had succeeded
C18_Witness ==
  /\ call.fn = "saveLevel"
  /\ ret # Null
  /\ "boxCount" \in DOMAIN ret
  /\ Len(customLevels) = 1
  /\ storage = JSONstringify(customLevels)

\* C19: a save that passes validation appends one level, which parses to
\* the editor grid, after the custom levels there were, stores the new
\* collection, switches to PLAY and selects the new level (the number of
\* built-in levels + the number of custom levels - 1); the load that
\* follows sets the session to the editor grid with moves 0 and an empty
\* history.
C19_SaveAppendsAndSelects ==
  [][/\ (call'.fn = "saveLevel" /\ ret' = Null) =>
          /\ Len(customLevels') = Len(customLevels) + 1
          /\ SubSeq(customLevels', 1, Len(customLevels)) = customLevels
          /\ parseLevel(customLevels'[Len(customLevels')]).grid = editorGrid
          /\ storage' = JSONstringify(customLevels')
          /\ mode' = "PLAY"
          /\ currentLevelIndex' = Len(LEVELS) + Len(customLevels') - 1
     /\ (call.fn = "saveLevel" /\ ret = Null /\ call'.fn = "useEffect") =>
          /\ gameState'.grid = editorGrid
          /\ gameState'.moves = 0
          /\ ~gameState'.levelCompleted
          /\ history' = <<>>]_vars

\* the second level saved, another one than the first, has been loaded
C19_Witness ==
  /\ call.fn = "useEffect"
  /\ mode = "PLAY"
  /\ Len(customLevels) = 2
  /\ customLevels[1] # customLevels[2]
  /\ currentLevelIndex = Len(LEVELS) + 1
  /\ gameState.grid = editorGrid

\* the number of characters of the level's rows that are in the set chars
NumChars(level, chars) ==
  Cardinality({p \in (1..Len(level[1])) \X (1..Len(level)) :
                 level[p[2]][p[1]] \in chars})

\* the level has one player, a box at least, and as many boxes as targets
ValidLevel(level) ==
  /\ NumChars(level, {"@", "+"}) = 1
  /\ NumChars(level, {"$", "*"}) >= 1
  /\ NumChars(level, {"$", "*"}) = NumChars(level, {".", "*", "+"})

\* C20: whatever is placed, cleared and saved in the editor, every level in
\* the custom-level collection has exactly one player-bearing cell, at least
\* one Box or BoxOnTarget cell, and as many boxes as targets.
C20_SavedLevelsValid ==
  \A i \in 1..Len(customLevels) : ValidLevel(customLevels[i])

\* two levels were saved, the first with a box on a target, the second
\* with the player on a target
C20_Witness ==
  /\ call.fn = "saveLevel"
  /\ ret = Null
  /\ Len(customLevels) = 2
  /\ \E x \in 1..EDITOR_SIZE : customLevels[1][1][x] = "*"
  /\ \E x \in 1..EDITOR_SIZE : customLevels[2][1][x] = "+"

----------------------------------------------------------------------------
(* Properties of the grids of the session and of the editor *)

\* the numbers of player-bearing cells, of boxes and of targets of a grid
Counts(grid) == <<NumPlayers(grid), NumBoxes(grid), NumTargets(grid)>>

\* C21: play preserves the validity of the level.  A step that loads a
\* level leaves a grid with one player-bearing cell and the numbers of boxes
\* and of targets of that level; every other step (a move, an undo, a
\* selection, the modal) leaves these three numbers as they were.  So every
\* state of a session has exactly one player-bearing cell and as many boxes
\* as targets.
C21_PlayPreservesValidity ==
  [][gameState' # Null =>
       /\ NumPlayers(gameState'.grid) = 1
       /\ NumBoxes(gameState'.grid) = NumTargets(gameState'.grid)
       /\ IF LevelLoaded'
          THEN Counts(gameState'.grid) =
                 Counts(parseLevel(allLevels[currentLevelIndex' + 1]).grid)
          ELSE /\ gameState # Null
               /\ Counts(gameState'.grid) = Counts(gameState.grid)]_vars

\* on the stored level, with its two boxes: a push undone after an earlier
\* move
C21_Witness ==
  /\ call.fn = "handleUndo"
  /\ ret = Null
  /\ historyLength >= 1
  /\ gameState # Null
  /\ NumBoxes(gameState.grid) = 2
  /\ gameState.grid # parseLevel(StoredLevel).grid

\* the cell a click of the editor was made on
ClickedCell(c) == <<c.x, c.y>>

\* C22: the editor grid never holds more than one player-bearing cell, and
\* when a click leaves a player on the clicked cell while another cell held
\* the player, the clicked cell is the only player-bearing cell afterwards
\* and the other cell holds Floor if it held Player and Target if it held
\* PlayerOnTarget.
C22_SinglePlayer ==
  [][/\ Cardinality(PlayerCells(editorGrid')) <= 1
     /\ \A p \in PlayerCells(editorGrid) :
          /\ call'.fn = "handleEditorCellClick"
          /\ p # ClickedCell(call')
          /\ ClickedCell(call') \in PlayerCells(editorGrid')
          => /\ PlayerCells(editorGrid') = {ClickedCell(call')}
             /\ CellAt(editorGrid', p) =
                  (IF CellAt(editorGrid, p) = Player THEN Floor ELSE Target)
    ]_vars

\* the player placed on the second cell after it stood on a target of the
\* first
C22_Witness ==
  /\ call.fn = "handleEditorCellClick"
  /\ ClickedCell(call) = <<1, 0>>
  /\ activeTool = Player
  /\ At(editorGrid, 0, 0) = Target
  /\ At(editorGrid, 1, 0) = PlayerOnTarget

\* the step is a click of the editor board with the tool
ClickWith(tool) ==
  /\ call'.fn = "handleEditorCellClick"
  /\ activeTool = tool

TargetBearingCells == {Target, BoxOnTarget, PlayerOnTarget}

\* C23: a click with the Box tool leaves BoxOnTarget on a cell that held
\* Target, BoxOnTarget or PlayerOnTarget and Box on every other cell; a click
\* with the Player tool leaves PlayerOnTarget on such a cell and Player on
\* every other cell.
C23_BoxPlayerComposition ==
  [][/\ ClickWith(Box) =>
          CellAt(editorGrid', ClickedCell(call')) =
            (IF CellAt(editorGrid, ClickedCell(call')) \in TargetBearingCells
             THEN BoxOnTarget ELSE Box)
     /\ ClickWith(Player) =>
          CellAt(editorGrid', ClickedCell(call')) =
            (IF CellAt(editorGrid, ClickedCell(call')) \in TargetBearingCells
             THEN PlayerOnTarget ELSE Player)]_vars

\* the Box tool has left BoxOnTarget on the first cell and Box on the
\* second, beside a wall
C23_Witness ==
  /\ call.fn = "handleEditorCellClick"
  /\ ClickedCell(call) = <<0, 0>>
  /\ activeTool = Box
  /\ At(editorGrid, 0, 0) = BoxOnTarget
  /\ At(editorGrid, 1, 0) = Box
  /\ At(editorGrid, 2, 0) = Wall

C25_TargetIdempotent ==
  [][/\ call.fn = "handleEditorCellClick"
     /\ ClickWith(Target)
     /\ ClickedCell(call') = ClickedCell(call)
     => editorGrid' = editorGrid]_vars

\* C26: a click with the Erase (Floor) tool leaves Floor on the clicked cell
\* whatever it held, and every other cell as it was.
C26_Erase ==
  [][ClickWith(Floor) =>
       \A p \in Cells(editorGrid) :
         CellAt(editorGrid', p) =
           (IF p = ClickedCell(call') THEN Floor ELSE CellAt(editorGrid, p))
    ]_vars

\* the first cell erased while the second holds the player on a target and
\* the third a box on a target
C26_Witness ==
  /\ call.fn = "handleEditorCellClick"
  /\ ClickedCell(call) = <<0, 0>>
  /\ activeTool = Floor
  /\ At(editorGrid, 0, 0) = Floor
  /\ At(editorGrid, 1, 0) = PlayerOnTarget
  /\ At(editorGrid, 2, 0) = BoxOnTarget

----------------------------------------------------------------------------
(* Properties of the level text format, under SpecRound and SpecMove *)

\* C27: the level text format round-trips.  Parsing the rows that
\* gridToStrings made of a grid returns a grid equal to it cell for cell,
\* and when the grid holds exactly one player-bearing cell the position
\* returned is the (column, row) of that cell.
C27_RoundTrip ==
  call.fn = "parseLevel" /\ "grid" \in DOMAIN call =>
    /\ ret.grid = call.grid
    /\ Cardinality(PlayerCells(call.grid)) = 1 =>
         <<ret.playerPos.x, ret.playerPos.y>> \in PlayerCells(call.grid)

\* a grid of two rows with the player on a target in the second row, second
\* column, serialized to "#$" and ".+" and parsed back
C27_Witness ==
  /\ call.fn = "parseLevel"
  /\ "grid" \in DOMAIN call
  /\ call.grid = <<<<Wall, Box>>, <<Target, PlayerOnTarget>>>>
  /\ call.level = << <<"#", "$">>, <<".", "+">> >>
  /\ ret.playerPos = Position(1, 1)

----------------------------------------------------------------------------
(* Properties of the two modes, under SpecMode *)

\* the play session is left as it was by the step
SessionKept ==
  /\ gameState' = gameState
  /\ history' = history
  /\ historyLength' = historyLength

C29_ParseLevel ==
  call.fn = "parseLevel" =>
    /\ Len(ret.grid) = Len(call.level)
    /\ \A y \in 1..Len(call.level) :
         /\ Len(ret.grid[y]) = Len(call.level[y])
         /\ \A x \in 1..Len(call.level[y]) :
              ret.grid[y][x] = <<call.level[y][x]>>
    /\ PlayerCells(ret.grid) # {} =>
         <<ret.playerPos.x, ret.playerPos.y>> \in PlayerCells(ret.grid)
    /\ PlayerCells(ret.grid) = {} => ret.playerPos = Position(0, 0)

\* a level of two rows without a player and with a wall at (0, 0)
C29_Witness ==
  /\ call = [fn |-> "parseLevel", level |-> << <<"#", "$">>, <<".", " ">> >>]
  /\ ret.grid = <<<<Wall, Box>>, <<Target, Floor>>>>
  /\ ret.playerPos = Position(0, 0)

\* every row of the grid has the length of the first
Rectangular(grid) == \A y \in 1..Len(grid) : Len(grid[y]) = Len(grid[1])

\* C30: the shape of a grid does not change.  An accepted move returns, and
\* installs, a grid with the rows of its input, each of the length it had;
\* the editor grid has EDITOR_SIZE rows of EDITOR_SIZE cells after every
\* click and every clear; the rows of the session's grid and of the editor
\* grid are of equal length in every state.
C30_GridShape ==
  [][/\ MoveAccepted' =>
          /\ SameShape(ret'.grid, gameState.grid)
          /\ gameState'.grid = ret'.grid
     /\ Len(editorGrid') = EDITOR_SIZE
     /\ \A y \in 1..EDITOR_SIZE : Len(editorGrid'[y]) = EDITOR_SIZE
     /\ Rectangular(editorGrid')
     /\ gameState' # Null => Rectangular(gameState'.grid)]_vars

\* a box pushed on the second level, of three rows of five cells, with the
\* editor grid drawn in
C30_Witness ==
  /\ MoveAccepted
  /\ ret.pushed
  /\ Len(gameState.grid) = 3
  /\ Len(gameState.grid[3]) = 5
  /\ call.dir = "RIGHT"
  /\ editorGrid # createEmptyGrid(EDITOR_SIZE)

----------------------------------------------------------------------------
(* Properties of winning, of the move counter and of the level index *)

FreshlyLoaded ==
  LET parsed == parseLevel(allLevels[currentLevelIndex' + 1])
  IN /\ gameState' = GameState(parsed.grid, parsed.playerPos, 0, FALSE)
     /\ history' = <<>>
     /\ historyLength' = 0
     /\ ~showWinModal'

\* C35: leaving the editor reloads the session.  The step from EDIT to PLAY
\* (Cancel / Exit or a save) leaves the effects of its render due, and the
\* effects of a render in play mode leave the current level freshly loaded:
\* moves 0, not completed, history empty, modal hidden, whatever the
\* session was before the editor was opened.
C35_LeavingEditorReloads ==
  [][/\ mode = "EDIT" /\ mode' = "PLAY" => effectPending'
     /\ mode = "PLAY" /\ call'.fn = "useEffect" => FreshlyLoaded]_vars

\* the effects after a save from the editor: the level drawn there, with
\* the player on a target of the first cell, is the session, at moves 0
C35_Witness ==
  /\ call.fn = "useEffect"
  /\ mode = "PLAY"
  /\ currentLevelIndex = Len(LEVELS)
  /\ Len(customLevels) = 1
  /\ gameState # Null
  /\ gameState.moves = 0
  /\ gameState.grid = editorGrid
  /\ At(editorGrid, 0, 0) = PlayerOnTarget

----------------------------------------------------------------------------
(* Properties of an editor click with grids by reference, under SpecDraw *)

\* C36: a click of the editor at (x, y) changes cell (x, y) and, when it
\* places a player (the Player tool, or the Target tool on a Player cell),
\* the cells that held Player or PlayerOnTarget; every other cell of the new
\* editor grid holds what it held, and the grid that was the editor grid
\* before the click still holds what it held.
C36_ClickFrame ==
  [][call'.fn = "handleEditorCellClick" =>
       LET old == Deref(heap, editorGrid)
           new == Deref(heap', editorGrid')
           c   == ClickedCell(call')
           placesPlayer == \/ activeTool = Player
                           \/ activeTool = Target /\ CellAt(old, c) = Player
       IN /\ Deref(heap', editorGrid) = old
          /\ \A p \in Cells(old) :
               \/ p = c
               \/ placesPlayer /\ CellAt(old, p) \in {Player, PlayerOnTarget}
               \/ CellAt(new, p) = CellAt(old, p)]_vars

\* the player placed on the second cell after it stood on a target of the
\* first: the new grid holds Target there, and the row of the grid before
\* the click still holds PlayerOnTarget
C36_Witness ==
  /\ call.fn = "handleEditorCellClick"
  /\ ClickedCell(call) = <<1, 0>>
  /\ activeTool = Player
  /\ At(Deref(heap, editorGrid), 0, 0) = Target
  /\ At(Deref(heap, editorGrid), 1, 0) = Player
  /\ \E a \in 1..Len(heap) : Len(heap[a]) = EDITOR_SIZE
                            /\ heap[a][1] = PlayerOnTarget

----------------------------------------------------------------------------
(* Properties of the level index, under SpecIndex *)

\* C37: the level index designates a level of the list after every step;
\* onNext on the last level leaves the index and the session as they were;
\* loadLevel with an index outside the list loads level 0 and sets the index
\* to 0.
C37_IndexInRange ==
  [][/\ currentLevelIndex' >= 0
     /\ currentLevelIndex' < Len(LEVELS) + Len(customLevels')
     /\ call'.fn = "onNext" /\ currentLevelIndex = Len(allLevels) - 1
          => currentLevelIndex' = currentLevelIndex /\ gameState' = gameState
     /\ /\ call'.fn = "loadLevel"
        /\ call'.index < 0 \/ call'.index >= Len(allLevels)
        => /\ currentLevelIndex' = 0
           /\ gameState' = GameState(parseLevel(allLevels[1]).grid,
                                     parseLevel(allLevels[1]).playerPos,
                                     0, FALSE)]_vars

\* loadLevel(3) with the three levels 0..2, the saved level being the
\* current one
C37_Witness ==
  /\ call = [fn |-> "loadLevel", index |-> 3]
  /\ Len(customLevels) = 1
  /\ currentLevelIndex = 0
  /\ gameState.grid = parseLevel(CorridorLevel).grid

----------------------------------------------------------------------------
(* src/games/SnakeGame.tsx *)

GRID_SIZE == 15

\* the variables of SokobanGame, which SnakeGame leaves alone
sokobanVars == <<mode, currentLevelIndex, gameState, showWinModal,
                 customLevels, history, historyLength, editorGrid, activeTool,
                 editorError, storage, effectPending, mounted, heap, listener>>

Point(x, y) == [x |-> x, y |-> y]

\* line 50: currentSnake.some(s => s.x === x && s.y === y)
onSnake(currentSnake, p) ==
  \E i \in 1..Len(currentSnake) : currentSnake[i] = p

\* lines 48-49: what Math.floor(Math.random() * GRID_SIZE) is taken to give
Draws == {5, 7, 8}

\* lines 46-53: the points generateFood can return; a draw on currentSnake
\* is drawn again
generateFood(currentSnake) ==
  {p \in {Point(x, y) : x \in Draws, y \in Draws} : ~onSnake(currentSnake, p)}

\* lines 55-63.  dir is 'RIGHT' from useState (line 17) and setDir is called
\* with 'RIGHT' only, so dir never changes and the effect of lines 28-31
\* runs with the first render and never again: dirRef is not written here.
startGame ==
  /\ snake' = <<Point(7, 7), Point(6, 7), Point(5, 7)>>
  /\ food' \in generateFood(<<Point(7, 7)>>)
  /\ nextDirRef' = "RIGHT"
  /\ score' = 0
  /\ status' = "PLAYING"
  /\ call' = [fn |-> "startGame"]
  /\ ret' = Null
  /\ UNCHANGED <<dirRef, ticks, sokobanVars>>

\* lines 74-79
stepFrom(head, currentDir) ==
  CASE currentDir = "UP"    -> [head EXCEPT !.y = @ - 1]
    [] currentDir = "DOWN"  -> [head EXCEPT !.y = @ + 1]
    [] currentDir = "LEFT"  -> [head EXCEPT !.x = @ - 1]
    [] currentDir = "RIGHT" -> [head EXCEPT !.x = @ + 1]

MaxTicks == 4

\* lines 65-116: a callback of the interval, which runs while status is
\* 'PLAYING'
moveSnake ==
  /\ status = "PLAYING"
  /\ ticks < MaxTicks
  /\ ticks' = ticks + 1
  /\ call' = [fn |-> "moveSnake", currentDir |-> nextDirRef]
  /\ ret' = Null
  /\ LET head == snake[1]
         currentDir == nextDirRef
         newHead == stepFrom(head, currentDir)
         newSnake == <<newHead>> \o snake
     IN  IF \/ newHead.x < 0 \/ newHead.x >= GRID_SIZE
            \/ newHead.y < 0 \/ newHead.y >= GRID_SIZE
            \/ onSnake(snake, newHead)
         THEN /\ status' = "GAME_OVER"
              /\ UNCHANGED <<snake, food, score, dirRef>>
         ELSE /\ IF newHead = food
                 THEN /\ score' = score + 10
                      /\ food' \in generateFood(newSnake)
                      /\ snake' = newSnake
                 ELSE /\ snake' = SubSeq(newSnake, 1, Len(newSnake) - 1)
                      /\ UNCHANGED <<food, score>>
              /\ dirRef' = currentDir
              /\ UNCHANGED status
  /\ UNCHANGED <<nextDirRef, sokobanVars>>

\* line 123: e.key.toLowerCase(), for the keys pressed here
SnakeKeys ==
  {"ArrowUp", "ArrowDown", "ArrowLeft", "ArrowRight", "w", "a", "s", "d",
   "W", "A", "S", "D", "r", "R", "x"}

toLowerCase(key) ==
  CASE key = "ArrowUp"    -> "arrowup"
    [] key = "ArrowDown"  -> "arrowdown"
    [] key = "ArrowLeft"  -> "arrowleft"
    [] key = "ArrowRight" -> "arrowright"
    [] key = "W" -> "w"
    [] key = "A" -> "a"
    [] key = "S" -> "s"
    [] key = "D" -> "d"
    [] key = "R" -> "r"
    [] OTHER -> key

\* lines 131-135
steer(key, current, next) ==
  LET up    == IF key \in {"arrowup", "w"} /\ current # "DOWN"
               THEN "UP" ELSE next
      down  == IF key \in {"arrowdown", "s"} /\ current # "UP"
               THEN "DOWN" ELSE up
      left  == IF key \in {"arrowleft", "a"} /\ current # "RIGHT"
               THEN "LEFT" ELSE down
  IN  IF key \in {"arrowright", "d"} /\ current # "LEFT"
      THEN "RIGHT" ELSE left

\* lines 120-136: handleKeyDown of SnakeGame
snakeHandleKeyDown(e) ==
  LET key == toLowerCase(e)
  IN  IF key = "r" THEN startGame
      ELSE /\ nextDirRef' = steer(key, dirRef, nextDirRef)
           /\ call' = [fn |-> "handleKeyDown", key |-> e]
           /\ ret' = Null
           /\ UNCHANGED <<snake, food, score, status, dirRef, ticks,
                          sokobanVars>>

SnakeInit ==
  /\ SessionInit
  /\ storage = Null
  /\ call = NoCall
  /\ ret = Null

SnakeNext ==
  \/ startGame
  \/ moveSnake
  \/ \E e \in SnakeKeys : snakeHandleKeyDown(e)

SpecSnake == SnakeInit /\ [][SnakeNext]_vars

----------------------------------------------------------------------------
(* Properties of SnakeGame, under SpecSnake *)

Opposite(d) ==
  CASE d = "UP" -> "DOWN" [] d = "DOWN" -> "UP"
    [] d = "LEFT" -> "RIGHT" [] d = "RIGHT" -> "LEFT"

\* the direction from the neck to the head: the direction of the last step,
\* and RIGHT for the snake of startGame
Heading(s) ==
  CHOOSE d \in {"UP", "DOWN", "LEFT", "RIGHT"} : stepFrom(s[2], d) = s[1]

\* C38: the direction a callback of the interval applies is never the
\* opposite of the heading of the snake it moves, whatever keys, callbacks
\* and restarts came before.
C38_NoReverse ==
  [][call'.fn = "moveSnake" /\ status = "PLAYING"
       => nextDirRef # Opposite(Heading(snake))]_vars

\* C39: while status is 'PLAYING' the food is on no cell of the snake.
C39_FoodOffSnake ==
  status = "PLAYING" => ~onSnake(snake, food)

============================================================================
